---------------------------- MODULE Spec2Model ----------------------------
(***************************************************************************)
(* Retrieval-augmented question answering for the Reog Ponorogo guide:     *)
(* the retriever (EmbeddingService.search), the answer composer            *)
(* (LLMService.generate / generate_answer / _postprocess_answer) and the   *)
(* pipeline orchestrator (RAGService.answer_question).                     *)
(*                                                                         *)
(* Text is a sequence of one-character strings, so that strip, startswith, *)
(* substring search and capitalisation are computed as the code computes   *)
(* them.  Python's None is the value None; an Optional[int] is <<>> for     *)
(* None and <<n>> for the int n.  A Python dict is a record                *)
(* whose DOMAIN is exactly the set of keys the code puts into the dict.    *)
(* A similarity score 1 / (1 + distance) is the exact fraction             *)
(* [num |-> 1, den |-> 1 + distance]; comparisons cross-multiply.          *)
(***************************************************************************)
EXTENDS Integers, Sequences, FiniteSets, TLC

VARIABLES
    collection,   \* ids of the records held by the vector database collection
    pc,           \* "idle": no call in progress; "returned": a call has returned
    request,      \* the arguments of the call that returned last
    outcome,      \* what that call gave its caller: a value or a raised exception
    calls,        \* the collaborators that call invoked, in order
    loader,       \* load_knowledge_base: its position, arguments and trace
    observed,     \* what a search running beside a load found in the collection
    chunker,      \* chunk_text: its arguments, its locals and its result
    normalizer,   \* TextNormalizer.normalize: the text given and the results
    preprocessor  \* KnowledgeBasePreprocessor: files processed and self.documents

vars == <<collection, pc, request, outcome, calls,
          loader, observed, chunker, normalizer, preprocessor>>

\* the state of the question-answering service, and of everything else
serviceVars == <<pc, request, outcome, calls>>
offlineVars == <<loader, observed, chunker, normalizer, preprocessor>>

None == "None"

----------------------------------------------------------------------------
(* Bounds of the model *)

\* records of the knowledge base: ids 1..NumDocs
NumDocs == 3
\* the vector database reports L2 distances 0..MaxDistance
MaxDistance == 8
\* direct callers of search ask for 1..MaxTopK results (or pass None)
MaxTopK == 2

----------------------------------------------------------------------------
(* src/config.py *)

RAG_TOP_K == 3
\* RAG_SCORE_THRESHOLD = 0.12, as the fraction ThresholdNum / ThresholdDen
ThresholdNum == 12
ThresholdDen == 100

----------------------------------------------------------------------------
(* Python str primitives *)

Whitespace == {" ", "\t", "\n"}

LowerLetters ==
    <<"a","b","c","d","e","f","g","h","i","j","k","l","m","n","o","p","q","r","s","t","u","v","w","x","y","z">>
UpperLetters ==
    <<"A","B","C","D","E","F","G","H","I","J","K","L","M","N","O","P","Q","R","S","T","U","V","W","X","Y","Z">>

IndexIn(c, letters) == CHOOSE i \in 1..Len(letters) : letters[i] = c
IsLowerChar(c) == \E i \in 1..Len(LowerLetters) : LowerLetters[i] = c
IsUpperChar(c) == \E i \in 1..Len(UpperLetters) : UpperLetters[i] = c

\* str.upper() / str.lower() of one character
UpperChar(c) == IF IsLowerChar(c) THEN UpperLetters[IndexIn(c, LowerLetters)] ELSE c
LowerChar(c) == IF IsUpperChar(c) THEN LowerLetters[IndexIn(c, UpperLetters)] ELSE c

\* str.lower()
Lower(s) == [i \in 1..Len(s) |-> LowerChar(s[i])]

RECURSIVE LStrip(_)
LStrip(s) == IF s # <<>> /\ Head(s) \in Whitespace THEN LStrip(Tail(s)) ELSE s

RECURSIVE RStrip(_)
RStrip(s) ==
    IF s # <<>> /\ s[Len(s)] \in Whitespace THEN RStrip(SubSeq(s, 1, Len(s) - 1)) ELSE s

\* str.strip()
Strip(s) == RStrip(LStrip(s))

\* str.startswith(prefix)
StartsWith(s, prefix) ==
    /\ Len(prefix) <= Len(s)
    /\ SubSeq(s, 1, Len(prefix)) = prefix

\* s[n:]
DropFirst(s, n) == SubSeq(s, n + 1, Len(s))

\* kw in s
Contains(s, kw) ==
    \E i \in 1..(Len(s) - Len(kw) + 1) : SubSeq(s, i, i + Len(kw) - 1) = kw

\* `not s` for a str
Falsy(s) == s = <<>>

DigitChars == <<"0", "1", "2", "3", "4", "5", "6", "7", "8", "9">>

\* str(n) of a natural number: its decimal digits
RECURSIVE Decimal(_)
Decimal(n) ==
    IF n < 10 THEN <<DigitChars[n + 1]>>
    ELSE Decimal(n \div 10) \o <<DigitChars[(n % 10) + 1]>>

\* len(s.split())
WordCount(s) ==
    Cardinality({k \in 1..Len(s) :
                    /\ s[k] \notin Whitespace
                    /\ k = 1 \/ s[k - 1] \in Whitespace})

\* ','.join(items)
RECURSIVE JoinComma(_)
JoinComma(items) ==
    IF items = <<>> THEN <<>>
    ELSE IF Len(items) = 1 THEN items[1]
    ELSE items[1] \o <<",">> \o JoinComma(Tail(items))

----------------------------------------------------------------------------
(* The knowledge base held by the vector database *)

DocIds == 1..NumDocs

\* metadata and text stored with record i by load_knowledge_base
DocLanguage(i) == IF i % 2 = 1 THEN "id" ELSE "en"
DocCategory(i) == IF i <= 2 THEN "sejarah" ELSE "tokoh"
DocTitle(i) == <<"D", "o", "c">>

\* a text of n characters
ContentOfLength(n) ==
    [k \in 1..n |-> IF k = n THEN "." ELSE IF k % 5 = 0 THEN " " ELSE "a"]

\* texts = [doc['content'] for doc in documents]: record 2 is as long as an
\* excerpt can be, record 3 one character longer
StoredTexts ==
    [i \in DocIds |->
        IF i = 2 THEN ContentOfLength(150)
        ELSE IF i = 3 THEN ContentOfLength(151)
        ELSE IF i % 2 = 1
        THEN <<"R","e","o","g"," ","a","d","a","l","a","h"," ","s","e","n","i",".">>
        ELSE <<"R","e","o","g"," ","i","s"," ","a","r","t",".">>]

DocContent(i) == StoredTexts[i]

\* doc['keywords'], doc['metadata']['word_count'] and
\* doc['metadata']['source_file'] of record i in the knowledge base file
DocKeywords(i) == << <<"r","e","o","g">>, <<"s","e","n","i">> >>
DocWordCount(i) == WordCount(StoredTexts[i])
DocSourceFile(i) == <<"0","1","_","r","e","o","g",".","t","x","t">>

\* metadatas: the six keys load_knowledge_base stores with each record, the
\* keywords joined with commas and the word count as a str
StoredMetadatas ==
    [i \in DocIds |->
        [title |-> DocTitle(i),
         category |-> DocCategory(i),
         language |-> DocLanguage(i),
         keywords |-> JoinComma(DocKeywords(i)),
         word_count |-> Decimal(DocWordCount(i)),
         source_file |-> DocSourceFile(i)]]

DocMetadata(i) == StoredMetadatas[i]

----------------------------------------------------------------------------
(* EmbeddingService.search and the vector database it queries *)

Distances == 0..MaxDistance

\* the where filter of search: only the truthy filters are set
WhereFilter(language_filter, category_filter) ==
    [language |-> IF language_filter = None \/ language_filter = "" THEN None
                  ELSE language_filter,
     category |-> IF category_filter = None \/ category_filter = "" THEN None
                  ELSE category_filter]

MatchesWhere(i, where) ==
    /\ where.language = None \/ DocLanguage(i) = where.language
    /\ where.category = None \/ DocCategory(i) = where.category

Min(a, b) == IF a <= b THEN a ELSE b

\* collection.query: the n_results nearest records that match the filter, as
\* parallel arrays ordered by ascending distance (one row per record)
QueryRows(coll, n_results, where) ==
    LET matching == {i \in coll : MatchesWhere(i, where)}
        n == Min(n_results, Cardinality(matching))
    IN  {rows \in [1..n -> [id : matching, distance : Distances]] :
            /\ \A i, j \in 1..n : i # j => rows[i].id # rows[j].id
            /\ \A i \in 1..(n - 1) : rows[i].distance <= rows[i + 1].distance}

\* what the database call does: it returns rows, or it fails
DbOutcomes(coll, n_results, where) ==
    {[kind |-> "unavailable"]}
        \cup {[kind |-> "rows", rows |-> r] : r \in QueryRows(coll, n_results, where)}

\* similarity = 1 / (1 + distance)
Similarity(distance) == [num |-> 1, den |-> 1 + distance]

\* mutant: the threshold filter is left out
PassesThreshold_Always(score) == TRUE

\* doc['score'] >= config.RAG_SCORE_THRESHOLD
PassesThreshold(score) == score.num * ThresholdDen >= ThresholdNum * score.den

ResultDoc(row) ==
    [id |-> row.id,
     content |-> DocContent(row.id),
     score |-> Similarity(row.distance),
     distance |-> row.distance,
     metadata |-> DocMetadata(row.id)]

\* mutant: each passing row is put in front of the list instead of behind it
RECURSIVE FormatResults_Reversed(_, _)
FormatResults_Reversed(rows, documents) ==
    IF rows = <<>> THEN documents
    ELSE LET doc == ResultDoc(Head(rows))
         IN  FormatResults_Reversed(Tail(rows),
                                    IF PassesThreshold(doc.score)
                                    THEN <<doc>> \o documents
                                    ELSE documents)

\* the loop of search over the returned rows: append the rows that pass
RECURSIVE FormatResults(_, _)
FormatResults(rows, documents) ==
    IF rows = <<>> THEN documents
    ELSE LET doc == ResultDoc(Head(rows))
         IN  FormatResults(Tail(rows),
                           IF PassesThreshold(doc.score) THEN Append(documents, doc)
                           ELSE documents)

\* if top_k is None: top_k = config.RAG_TOP_K
SearchTopK(top_k) == IF top_k = <<>> THEN RAG_TOP_K ELSE top_k[1]

\* config.EMBEDDING_MODEL: self.model, which embed_batch runs on the stored
\* texts in load_knowledge_base
EMBEDDING_MODEL == "paraphrase-multilingual-MiniLM-L12-v2"

\* the collection is got or created without an embedding_function: texts
\* given to it are embedded by the database's own default function
CollectionEmbeddingFunction == "default embedding function of the database"

\* what turns the query of a collection.query call into the vector the
\* neighbours are searched with: a caller that sends query_embeddings has
\* embedded it with self.model, query_texts are embedded by the collection
QueryEmbeddedBy(sent) ==
    IF "query_embeddings" \in DOMAIN sent THEN EMBEDDING_MODEL
    ELSE CollectionEmbeddingFunction

\* the query search sends to the database
SearchQuery(query, top_k, language_filter, category_filter) ==
    [op |-> "collection.query",
     query_texts |-> <<query>>,
     n_results |-> SearchTopK(top_k),
     where |-> WhereFilter(language_filter, category_filter)]

\* str(e) of the exception a failing database call raises
DbError == <<"d","b"," ","d","o","w","n">>

\* mutant: a failing database call is swallowed and reported as no results
Search_Swallows(db) ==
    IF db.kind = "unavailable"
    THEN [raised |-> FALSE, value |-> <<>>]
    ELSE [raised |-> FALSE, value |-> FormatResults(db.rows, <<>>)]

\* search(query, top_k, language_filter, category_filter) when the database
\* call ends as db: the list returned, or the exception that leaves search
Search(db) ==
    IF db.kind = "unavailable"
    THEN [raised |-> TRUE, exception |-> DbError]
    ELSE [raised |-> FALSE, value |-> FormatResults(db.rows, <<>>)]

----------------------------------------------------------------------------
(* LLMService: generate, generate_answer, _postprocess_answer *)

PrefixesId ==
    << <<"J","a","w","a","b","a","n",":">>,
       <<"J","a","w","a","b",":">>,
       <<"B","e","r","d","a","s","a","r","k","a","n"," ","k","o","n","t","e","k","s",",">> >>
PrefixesEn ==
    << <<"A","n","s","w","e","r",":">>,
       <<"B","a","s","e","d"," ","o","n"," ","t","h","e"," ","c","o","n","t","e","x","t",",">> >>

PrefixesToRemove(language) == IF language = "id" THEN PrefixesId ELSE PrefixesEn

\* for prefix in prefixes_to_remove: each prefix is tried once, in order
RECURSIVE RemovePrefixes(_, _)
RemovePrefixes(answer, prefixes) ==
    IF prefixes = <<>> THEN answer
    ELSE RemovePrefixes(
             IF StartsWith(answer, Head(prefixes))
             THEN Strip(DropFirst(answer, Len(Head(prefixes))))
             ELSE answer,
             Tail(prefixes))

Capitalize(answer) ==
    IF answer # <<>> /\ ~IsUpperChar(answer[1])
    THEN <<UpperChar(answer[1])>> \o Tail(answer)
    ELSE answer

TerminalPunctuation == {".", "!", "?"}

Punctuate(answer) ==
    IF answer # <<>> /\ answer[Len(answer)] \notin TerminalPunctuation
    THEN Append(answer, ".")
    ELSE answer

_postprocess_answer(answer, language) ==
    Punctuate(Capitalize(RemovePrefixes(Strip(answer), PrefixesToRemove(language))))

\* texts the generation service can put in the 'response' field of its reply
RawTexts ==
    { <<>>,
      <<" ","\n">>,
      <<"R","e","o","g"," ","a","d","a","l","a","h"," ","s","e","n","i",".">>,
      <<"J","a","w","a","b","a","n",":"," ","r","e","o","g">>,
      <<"A","n","s","w","e","r",":">>,
      <<" ","J","a","w","a","b",":"," ">>,
      <<"i","t"," ","i","s"," ","a","r","t">>,
      <<"A","n","s","w","e","r",":"," ","A","n","s","w","e","r",":"," ","R","e","o","g"," ","i","s"," ","a","r","t">> }

\* the body of a reply whose status is not 200
ErrorBody == <<"n","o"," ","m","o","d","e","l">>

\* how the POST to /api/generate can end: an exception, or a reply whose text
\* is the 'response' field of a 200 reply and the body of any other reply
HttpOutcomes ==
    {[kind |-> "timeout"], [kind |-> "connection_error"], [kind |-> "exception"]}
        \cup {[kind |-> "response", status_code |-> 404, text |-> ErrorBody],
              [kind |-> "response", status_code |-> 500, text |-> ErrorBody]}
        \cup {[kind |-> "response", status_code |-> 200, text |-> r] : r \in RawTexts}

\* mutant: the status code of the reply is not looked at
generate_IgnoresStatus(http) ==
    IF http.kind = "response" THEN Strip(http.text) ELSE <<>>

\* LLMService.generate: the text of a 200 reply, stripped; "" on every failure
generate(http) ==
    IF http.kind = "response"
    THEN IF http.status_code = 200 THEN Strip(http.text) ELSE <<>>
    ELSE IF http.kind = "timeout" THEN <<>>
    ELSE <<>>

\* LLMService.generate_answer
generate_answer(http, language) == _postprocess_answer(generate(http), language)

----------------------------------------------------------------------------
(* RAGService: the fixed messages and the response builders *)

\* _no_info_response, language == 'id'
NoInfoId ==
    <<"M","a","a","f",","," ","s","a","y","a"," ","t","i","d","a","k"," ","m","e","n","e","m",
      "u","k","a","n"," ","i","n","f","o","r","m","a","s","i"," ","y","a","n","g"," ","r","e",
      "l","e","v","a","n"," ","u","n","t","u","k"," ","m","e","n","j","a","w","a","b"," ","p",
      "e","r","t","a","n","y","a","a","n"," ","A","n","d","a"," ","d","i"," ","b","a","s","i",
      "s"," ","p","e","n","g","e","t","a","h","u","a","n"," ","s","a","y","a"," ","t","e","n",
      "t","a","n","g"," ","R","e","o","g"," ","P","o","n","o","r","o","g","o",".">>

\* _no_info_response, any other language
NoInfoEn ==
    <<"I","'","m"," ","s","o","r","r","y",","," ","I"," ","c","o","u","l","d","n","'","t"," ",
      "f","i","n","d"," ","r","e","l","e","v","a","n","t"," ","i","n","f","o","r","m","a","t",
      "i","o","n"," ","t","o"," ","a","n","s","w","e","r"," ","y","o","u","r"," ","q","u","e",
      "s","t","i","o","n"," ","i","n"," ","m","y"," ","k","n","o","w","l","e","d","g","e"," ",
      "b","a","s","e"," ","a","b","o","u","t"," ","R","e","o","g"," ","P","o","n","o","r","o",
      "g","o",".">>

\* _get_error_message, language == 'id'
ErrorMsgId ==
    <<"M","a","a","f",","," ","t","e","r","j","a","d","i"," ","k","e","s","a","l","a","h","a",
      "n"," ","s","a","a","t"," ","m","e","m","p","r","o","s","e","s"," ","p","e","r","t","a",
      "n","y","a","a","n"," ","A","n","d","a","."," ","S","i","l","a","k","a","n"," ","c","o",
      "b","a"," ","l","a","g","i",".">>

\* _get_error_message, any other language
ErrorMsgEn ==
    <<"I","'","m"," ","s","o","r","r","y",","," ","t","h","e","r","e"," ","w","a","s"," ","a",
      "n"," ","e","r","r","o","r"," ","p","r","o","c","e","s","s","i","n","g"," ","y","o","u",
      "r"," ","q","u","e","s","t","i","o","n","."," ","P","l","e","a","s","e"," ","t","r","y",
      " ","a","g","a","i","n",".">>

id_keywords ==
    << <<"a","p","a">>,
       <<"y","a","n","g">>,
       <<"a","d","a","l","a","h">>,
       <<"i","n","i">>,
       <<"i","t","u">>,
       <<"d","e","n","g","a","n">>,
       <<"d","a","r","i">>,
       <<"k","e">>,
       <<"d","i">>,
       <<"u","n","t","u","k">> >>

en_keywords ==
    << <<"w","h","a","t">>,
       <<"i","s">>,
       <<"t","h","e">>,
       <<"t","h","i","s">>,
       <<"t","h","a","t">>,
       <<"w","i","t","h">>,
       <<"f","r","o","m">>,
       <<"t","o">>,
       <<"i","n">>,
       <<"f","o","r">> >>

\* sum(1 for kw in keywords if kw in text)
KeywordScore(keywords, text) ==
    Cardinality({i \in 1..Len(keywords) : Contains(text, keywords[i])})

\* mutant: a tie goes to English
_detect_language_TieEn(text) ==
    LET text_lower == Lower(text)
        id_score == KeywordScore(id_keywords, text_lower)
        en_score == KeywordScore(en_keywords, text_lower)
    IN  IF id_score > en_score THEN "id" ELSE "en"

_detect_language(text) ==
    LET text_lower == Lower(text)
        id_score == KeywordScore(id_keywords, text_lower)
        en_score == KeywordScore(en_keywords, text_lower)
    IN  IF id_score >= en_score THEN "id" ELSE "en"

\* mutant: the message is Indonesian whatever the language
_get_error_message_IdOnly(language) == ErrorMsgId

_get_error_message(language) == IF language = "id" THEN ErrorMsgId ELSE ErrorMsgEn

_error_response(error_msg, language) ==
    [answer |-> _get_error_message(language),
     sources |-> <<>>,
     language |-> language,
     error |-> error_msg,
     success |-> FALSE]

_no_info_response(language) ==
    [answer |-> IF language = "id" THEN NoInfoId ELSE NoInfoEn,
     sources |-> <<>>,
     language |-> language,
     success |-> FALSE]

\* mutant: the default language is 'en'
LanguageOrId_DefaultsEn(language) ==
    IF language = None \/ language = "" THEN "en" ELSE language

\* language or 'id'
LanguageOrId(language) == IF language = None \/ language = "" THEN "id" ELSE language

\* mutant: the exception text is given as the answer
ExceptionResponse_Leaks(exception, language) ==
    [answer |-> exception,
     sources |-> <<>>,
     language |-> LanguageOrId(language),
     error |-> exception,
     success |-> FALSE]

\* the response built by the except clause of answer_question
ExceptionResponse(exception, language) ==
    [answer |-> _get_error_message(LanguageOrId(language)),
     sources |-> <<>>,
     language |-> LanguageOrId(language),
     error |-> exception,
     success |-> FALSE]

ExcerptLen == 150
Ellipsis == <<".", ".", ".">>

\* mutant: a content of exactly 150 characters is cut too
Excerpt_CutsAtLimit(content) ==
    IF Len(content) >= ExcerptLen THEN SubSeq(content, 1, ExcerptLen) \o Ellipsis
    ELSE content

\* doc['content'][:150] + '...' if len(doc['content']) > 150 else doc['content']
Excerpt(content) ==
    IF Len(content) > ExcerptLen THEN SubSeq(content, 1, ExcerptLen) \o Ellipsis
    ELSE content

\* round(score, 3) in thousandths (no score that passes the threshold lies
\* halfway between two thousandths)
RoundMilli(score) == (2000 * score.num + score.den) \div (2 * score.den)

RECURSIVE _format_sources(_)
_format_sources(documents) ==
    IF documents = <<>> THEN <<>>
    ELSE LET doc == Head(documents)
         IN  <<[title |-> doc.metadata.title,
                category |-> doc.metadata.category,
                score |-> RoundMilli(doc.score),
                excerpt |-> Excerpt(doc.content)]>>
                 \o _format_sources(Tail(documents))

\* mutant: the response is built before timing['total'] is recorded
SuccessResponse_BeforeTotal(answer, language, documents, return_sources, return_timing, timing) ==
    LET sources == IF return_sources THEN _format_sources(documents) ELSE <<>>
        partial == timing \ {"total"}
    IN  IF return_sources /\ return_timing
        THEN [answer |-> answer, language |-> language, success |-> TRUE,
              sources |-> sources, timing |-> partial]
        ELSE IF return_sources
        THEN [answer |-> answer, language |-> language, success |-> TRUE,
              sources |-> sources]
        ELSE IF return_timing
        THEN [answer |-> answer, language |-> language, success |-> TRUE,
              timing |-> partial]
        ELSE [answer |-> answer, language |-> language, success |-> TRUE]

\* the response dict of the success path: 'sources' and 'timing' are keys
\* only when asked for; timing is the set of durations recorded
SuccessResponse(answer, language, documents, return_sources, return_timing, timing) ==
    LET sources == IF return_sources THEN _format_sources(documents) ELSE <<>>
    IN  IF return_sources /\ return_timing
        THEN [answer |-> answer, language |-> language, success |-> TRUE,
              sources |-> sources, timing |-> timing]
        ELSE IF return_sources
        THEN [answer |-> answer, language |-> language, success |-> TRUE,
              sources |-> sources]
        ELSE IF return_timing
        THEN [answer |-> answer, language |-> language, success |-> TRUE,
              timing |-> timing]
        ELSE [answer |-> answer, language |-> language, success |-> TRUE]

----------------------------------------------------------------------------
(* RAGService.answer_question *)

EmptyQuestion == <<"E","m","p","t","y"," ","q","u","e","s","t","i","o","n">>
GenerationFailedError == <<"A","n","s","w","e","r"," ","g","e","n","e","r","a","t","i","o","n"," ","f","a","i","l","e","d">>

\* str(e) of an exception that leaves _detect_language or generate_answer
DetectError == <<"d","e","t","e","c","t"," ","f","a","i","l","e","d">>
ComposerError == <<"c","o","m","p","o","s","e","r"," ","f","a","i","l","e","d">>

\* top_k or config.RAG_TOP_K
TopKOrDefault(top_k) == IF top_k = <<>> \/ top_k[1] = 0 THEN RAG_TOP_K ELSE top_k[1]

\* mutant: the question is not stripped before it is tested
IsBlank_NoStrip(question) == Falsy(question)

\* not question or not question.strip()
IsBlank(question) == Falsy(question) \/ Falsy(Strip(question))

\* how a call of LLMService.generate_answer can end: an exception leaves it,
\* or its POST ends as http and it returns the post-processed text
ComposerOutcomes ==
    {[kind |-> "raised"]} \cup {[kind |-> "http", http |-> h] : h \in HttpOutcomes}

\* mutant: an empty retrieval goes on to generation
NoDocuments_Skipped(documents) == FALSE

\* if not documents
NoDocuments(documents) == documents = <<>>

\* mutant: an empty answer is taken as a success
GenerationFailed_Never(answer) == FALSE

\* if not answer
GenerationFailed(answer) == Falsy(answer)

Raised(exception) == [raised |-> TRUE, exception |-> exception]
Returned(value) == [raised |-> FALSE, value |-> value]

\* Every way one call of answer_question can run against collection coll:
\* the response it returns and the collaborator calls it made, in order,
\* each with what it was given and how it ended.
answer_question(coll, question, language, top_k, return_sources, return_timing) ==
    IF IsBlank(question)
    THEN {[response |-> _error_response(EmptyQuestion, LanguageOrId(language)),
           calls |-> <<>>]}
    ELSE
    LET q == Strip(question)
        lang == IF language = None THEN _detect_language(q) ELSE language
        detected == IF language = None
                    THEN <<[op |-> "_detect_language", text |-> q,
                            outcome |-> Returned(lang)]>>
                    ELSE <<>>
        query == SearchQuery(q, <<TopKOrDefault(top_k)>>, lang, None)
        Generated(documents, searched, gen) ==
            LET answer == generate_answer(gen.http, lang)
                composed(how) == [op |-> "generate_answer", question |-> q,
                                  context_documents |-> documents,
                                  language |-> lang, outcome |-> how]
                posted == [op |-> "generate", http |-> gen.http,
                           outcome |-> Returned(generate(gen.http))]
                timing == {"retrieval", "generation"}
            IN  IF gen.kind = "raised"
                THEN [response |-> ExceptionResponse(ComposerError, lang),
                      calls |-> detected
                                  \o <<searched, composed(Raised(ComposerError))>>]
                ELSE IF GenerationFailed(answer)
                THEN [response |-> _error_response(GenerationFailedError, lang),
                      calls |-> detected
                                  \o <<searched, posted, composed(Returned(answer))>>]
                ELSE [response |-> SuccessResponse(answer, lang, documents,
                                                   return_sources, return_timing,
                                                   timing \cup {"total"}),
                      calls |-> detected
                                  \o <<searched, posted, composed(Returned(answer))>>]
        Retrieved(db) ==
            LET found == Search(db)
                searched == [op |-> "search", query |-> query, reply |-> db,
                             outcome |-> found]
            IN  IF found.raised
                THEN {[response |-> ExceptionResponse(found.exception, lang),
                       calls |-> detected \o <<searched>>]}
                ELSE IF NoDocuments(found.value)
                THEN {[response |-> _no_info_response(lang),
                       calls |-> detected \o <<searched>>]}
                ELSE {Generated(found.value, searched, gen) : gen \in ComposerOutcomes}
    IN  (IF language = None
         THEN {[response |-> ExceptionResponse(DetectError, language),
                calls |-> <<[op |-> "_detect_language", text |-> q,
                             outcome |-> Raised(DetectError)]>>]}
         ELSE {})
        \cup UNION {Retrieved(db) : db \in DbOutcomes(coll, query.n_results, query.where)}

----------------------------------------------------------------------------
(* EmbeddingService.load_knowledge_base: the source file and the batches *)

\* the largest number of records of a source knowledge base
MaxSource == 201

\* batch_size = 100
BatchSize == 100

\* the knowledge base file: missing, or holding n records with ids 1..n.
\* The sizes are those at and around the multiples of the batch size.
SourceSizes == {n \in 0..MaxSource : n % BatchSize \in {0, 1, BatchSize - 1}}
Sources ==
    {[exists |-> FALSE, n |-> 0]} \cup {[exists |-> TRUE, n |-> n] : n \in SourceSizes}

\* ids = [doc['id'] for doc in documents]
SourceIds(source) == IF source.exists THEN 1..source.n ELSE {}

\* what the collection can hold when a load is called: nothing, the source's
\* records, the first batch a failed load left, or the records of an older
\* and larger source
StoresBefore(source) ==
    { {}, 1..source.n, 1..Min(source.n, BatchSize), 1..(source.n + 1) }

\* if existing_count > 0 and not force_reload: return
AlreadyLoaded_Never(existing_count, force_reload) == FALSE

\* if existing_count > 0 and not force_reload: return
AlreadyLoaded(existing_count, force_reload) == existing_count > 0 /\ ~force_reload

\* if force_reload and existing_count > 0: delete and recreate the collection
MustClear(existing_count, force_reload) == force_reload /\ existing_count > 0

\* end_idx = min(i + batch_size, len(documents))
BatchEnd_Short(i, n) == Min(i + BatchSize - 1, n)

\* end_idx = min(i + batch_size, len(documents))
BatchEnd(i, n) == Min(i + BatchSize, n)

\* ids[i:end_idx], the records the slice i:end_idx holds
BatchIds(i, end_idx) == (i + 1)..end_idx

\* no load in progress. partial records that a load raised between two
\* add batches and that the collection has not been cleared or filled since
LoaderIdle ==
    [pc |-> "idle", force_reload |-> FALSE, source |-> [exists |-> FALSE, n |-> 0],
     before |-> {}, i |-> 0, ops |-> <<>>, added |-> <<>>, partial |-> FALSE]

\* no search has run beside the load
NotObserved == [seen |-> FALSE, during |-> "idle", force_reload |-> FALSE,
                failed |-> FALSE, visible |-> {}]


----------------------------------------------------------------------------
(* KnowledgeBasePreprocessor.chunk_text *)

\* the longest text given to chunk_text
MaxTextLen == 7

Space == <<" ">>

\* [.!?] of the sentence pattern
SentenceEnders == {".", "!", "?"}

\* the pattern (?<=[.!?])\s+ matches at p: whitespace right after an ender
IsSplitAt(text, p) ==
    /\ 1 < p /\ p <= Len(text)
    /\ text[p] \in Whitespace
    /\ text[p - 1] \in SentenceEnders

\* \s+ is greedy: the match runs to the first character that is no whitespace
RunEnd(text, p) ==
    CHOOSE q \in p..(Len(text) + 1) :
        /\ q = Len(text) + 1 \/ text[q] \notin Whitespace
        /\ \A r \in p..(q - 1) : text[r] \in Whitespace

\* the members of a subset of 1..n, in increasing order
Ascending(S, n) ==
    LET IsIn(i) == i \in S
    IN  SelectSeq([i \in 1..n |-> i], IsIn)

\* sentences = re.split(r'(?<=[.!?])\s+', text): the pieces between the matches
SplitSentences(text) ==
    LET splits == Ascending({p \in 1..Len(text) : IsSplitAt(text, p)}, Len(text))
        n == Len(splits)
        StartOf(k) == IF k = 1 THEN 1 ELSE RunEnd(text, splits[k - 1])
        EndOf(k) == IF k = n + 1 THEN Len(text) ELSE splits[k] - 1
    IN  [k \in 1..(n + 1) |-> SubSeq(text, StartOf(k), EndOf(k))]

\* the first index at or after from that holds whitespace, else Len(s) + 1
WordEnd(s, from) ==
    CHOOSE e \in from..(Len(s) + 1) :
        /\ e = Len(s) + 1 \/ s[e] \in Whitespace
        /\ \A r \in from..(e - 1) : s[r] \notin Whitespace

\* a word begins at i: no whitespace there, whitespace or nothing before
IsWordStart(s, i) == s[i] \notin Whitespace /\ (i = 1 \/ s[i - 1] \in Whitespace)

\* str.split(): the maximal runs of characters that are no whitespace
Words(s) ==
    LET starts == Ascending({i \in 1..Len(s) : IsWordStart(s, i)}, Len(s))
    IN  [k \in 1..Len(starts) |-> SubSeq(s, starts[k], WordEnd(s, starts[k]) - 1)]

\* ' '.join(words[lo..hi])
RECURSIVE JoinRange(_, _, _)
JoinRange(words, lo, hi) ==
    IF lo > hi THEN <<>>
    ELSE IF lo = hi THEN words[lo]
    ELSE LET mid == (lo + hi) \div 2
         IN  JoinRange(words, lo, mid) \o Space \o JoinRange(words, mid + 1, hi)

\* ' '.join(words)
JoinWords(words) == JoinRange(words, 1, Len(words))

\* Python's a // b for b > 0, which rounds towards minus infinity
FloorDiv(a, b) == IF a >= 0 THEN a \div b ELSE -((b - 1 - a) \div b)

\* Python's words[start:] for a start that may be negative
SliceFrom(words, start) ==
    IF start < 0
    THEN SubSeq(words, (IF Len(words) + start > 0 THEN Len(words) + start ELSE 0) + 1,
                Len(words))
    ELSE SubSeq(words, start + 1, Len(words))

\* overlap_words = words[-overlap//5:] if len(words) > overlap//5 else words;
\* -overlap//5 is (-overlap)//5
OverlapWords(words, overlap) ==
    IF Len(words) > FloorDiv(overlap, 5)
    THEN SliceFrom(words, FloorDiv(-overlap, 5))
    ELSE words

\* sentence_to_add = sentence + ' '
SentenceToAdd(sentence) == sentence \o Space

\* the locals of chunk_text before the loop: chunks = [], current_chunk = "".
\* seeds[k] is ' '.join(overlap_words) as current_chunk held it when chunk k
\* was begun, seed the same for current_chunk
ChunkerStart == [chunks |-> <<>>, seeds |-> <<>>, current_chunk |-> <<>>, seed |-> <<>>]

\* if len(sentence_to_add) > max_chunk_size
IsOversized(sentence_to_add, max_chunk_size) == Len(sentence_to_add) > max_chunk_size

\* elif len(current_chunk) + len(sentence_to_add) > max_chunk_size and current_chunk
Overflows_Never(st, sentence_to_add, max_chunk_size) == FALSE

\* elif len(current_chunk) + len(sentence_to_add) > max_chunk_size and current_chunk
Overflows(st, sentence_to_add, max_chunk_size) ==
    /\ Len(st.current_chunk) + Len(sentence_to_add) > max_chunk_size
    /\ st.current_chunk # <<>>

\* the oversized branch without its flush of current_chunk
AddOversized_NoFlush(st, sentence_to_add) ==
    [chunks |-> Append(st.chunks, Strip(sentence_to_add)),
     seeds |-> Append(st.seeds, <<>>),
     current_chunk |-> <<>>, seed |-> <<>>]

\* the oversized branch: flush current_chunk if it is not blank, append the
\* sentence as its own chunk, current_chunk = ""
AddOversized(st, sentence_to_add) ==
    LET flushed == IF Strip(st.current_chunk) # <<>>
                   THEN [chunks |-> Append(st.chunks, Strip(st.current_chunk)),
                         seeds |-> Append(st.seeds, st.seed)]
                   ELSE [chunks |-> st.chunks, seeds |-> st.seeds]
    IN  [chunks |-> Append(flushed.chunks, Strip(sentence_to_add)),
         seeds |-> Append(flushed.seeds, <<>>),
         current_chunk |-> <<>>, seed |-> <<>>]

\* the overflow branch: append current_chunk.strip(), begin the next chunk
\* with the overlap words, a space and the sentence
CloseAndSeed(st, sentence_to_add, overlap) ==
    LET overlap_words == OverlapWords(Words(st.current_chunk), overlap)
    IN  [chunks |-> Append(st.chunks, Strip(st.current_chunk)),
         seeds |-> Append(st.seeds, st.seed),
         current_chunk |-> JoinWords(overlap_words) \o Space \o sentence_to_add,
         seed |-> JoinWords(overlap_words)]

\* else: current_chunk += sentence_to_add
Extend(st, sentence_to_add) ==
    [st EXCEPT !.current_chunk = @ \o sentence_to_add]

\* one turn of for sentence in sentences
AddSentence(st, sentence, max_chunk_size, overlap) ==
    LET sentence_to_add == SentenceToAdd(sentence)
    IN  IF IsOversized(sentence_to_add, max_chunk_size)
        THEN AddOversized(st, sentence_to_add)
        ELSE IF Overflows(st, sentence_to_add, max_chunk_size)
        THEN CloseAndSeed(st, sentence_to_add, overlap)
        ELSE Extend(st, sentence_to_add)

\* mutant: a last chunk of exactly min_chunk_size characters is merged too
MergesFinal_AtMinimum(st, final_chunk, min_chunk_size) ==
    Len(final_chunk) <= min_chunk_size /\ Len(st.chunks) > 0

\* if len(final_chunk) < min_chunk_size and len(chunks) > 0
MergesFinal(st, final_chunk, min_chunk_size) ==
    Len(final_chunk) < min_chunk_size /\ Len(st.chunks) > 0

\* after the loop: the last chunk is merged into the previous one or appended
AddFinal(st, min_chunk_size) ==
    LET final_chunk == Strip(st.current_chunk)
        n == Len(st.chunks)
    IN  IF final_chunk = <<>> THEN st
        ELSE IF MergesFinal(st, final_chunk, min_chunk_size)
        THEN [st EXCEPT !.chunks[n] = @ \o Space \o final_chunk]
        ELSE [st EXCEPT !.chunks = Append(@, final_chunk),
                        !.seeds = Append(@, st.seed)]

\* if not chunks: chunks = [text]
OrWholeText(st, text) ==
    IF st.chunks = <<>>
    THEN [st EXCEPT !.chunks = <<text>>, !.seeds = <<<<>>>>]
    ELSE st

\* return [chunk for chunk in chunks if chunk], with the seeds of those chunks
NonEmptyChunks(st) ==
    LET kept == Ascending({k \in 1..Len(st.chunks) : st.chunks[k] # <<>>}, Len(st.chunks))
    IN  [chunks |-> [j \in 1..Len(kept) |-> st.chunks[kept[j]]],
         seeds |-> [j \in 1..Len(kept) |-> st.seeds[kept[j]]]]

\* for sentence in sentences[lo..hi], the turns in order
RECURSIVE ChunkLoop(_, _, _, _, _, _)
ChunkLoop(st, sentences, lo, hi, max_chunk_size, overlap) ==
    IF lo > hi THEN st
    ELSE IF lo = hi THEN AddSentence(st, sentences[lo], max_chunk_size, overlap)
    ELSE LET mid == (lo + hi) \div 2
             half == ChunkLoop(st, sentences, lo, mid, max_chunk_size, overlap)
         IN  \* the turns lo..mid are over (half has its value) when mid + 1 begins
             IF half = half
             THEN ChunkLoop(half, sentences, mid + 1, hi, max_chunk_size, overlap)
             ELSE half

\* chunk_text(text, max_chunk_size, overlap, min_chunk_size): the chunks
chunk_text(text, max_chunk_size, overlap, min_chunk_size) ==
    LET sentences == SplitSentences(text)
        looped == ChunkLoop(ChunkerStart, sentences, 1, Len(sentences),
                            max_chunk_size, overlap)
    IN  NonEmptyChunks(OrWholeText(AddFinal(looped, min_chunk_size), text)).chunks

\* the characters of the texts given to chunk_text
TextChars == {"a", ".", " "}

\* every text of at most MaxTextLen characters
Texts == UNION {[1..n -> TextChars] : n \in 0..MaxTextLen}

\* the arguments given to chunk_text
MaxChunkSizes == {2, 3, 5}
Overlaps == {0, 5, 7}
MinChunkSizes == {0, 6}

ChunkerIdle ==
    [pc |-> "idle", text |-> <<>>, max_chunk_size |-> 0, overlap |-> 0,
     min_chunk_size |-> 0, sentences |-> <<>>, k |-> 1, st |-> ChunkerStart,
     result |-> [chunks |-> <<>>, seeds |-> <<>>]]

----------------------------------------------------------------------------
(* TextNormalizer: normalize and its five steps *)

\* how many times in a row normalize is applied to its own result
MaxPasses == 2

\* self.replacements, in the order of the dict: <<wrong, correct>>
replacements ==
    <<
      <<<<"r","i","y","a","d","h"," ","p","o","n","d","e","r","o","g","o">>,
        <<"R","e","o","g"," ","P","o","n","o","r","o","g","o">>>>,
      <<<<"r","e","o","g"," ","p","o","n","d","e","r","o","g","o">>,
        <<"R","e","o","g"," ","P","o","n","o","r","o","g","o">>>>,
      <<<<"r","e","o","k"," ","p","o","n","o","r","o","g","o">>,
        <<"R","e","o","g"," ","P","o","n","o","r","o","g","o">>>>,
      <<<<"r","e","o","g"," ","p","o","n","o","r","o","g","o">>,
        <<"R","e","o","g"," ","P","o","n","o","r","o","g","o">>>>,
      <<<<"p","o","n","o","r","o","g","o"," ","r","e","g">>,
        <<"R","e","o","g"," ","P","o","n","o","r","o","g","o">>>>,
      <<<<"r","e","o","g">>,
        <<"R","e","o","g">>>>,
      <<<<"p","o","n","o","r","o","g","o">>,
        <<"P","o","n","o","r","o","g","o">>>>,
      <<<<"k","l","o","n","o"," ","s","e","w","a","n","d","o","n","o">>,
        <<"R","a","j","a"," ","K","l","o","n","o"," ","S","e","w","a","n","d","o","n","o">>>>,
      <<<<"b","a","n","t","a","r","a","n","g","i","n">>,
        <<"K","e","r","a","j","a","a","n"," ","B","a","n","t","a","r","a","n","g","i","n">>>>,
      <<<<"k","e","d","i","r","i">>,
        <<"K","e","r","a","j","a","a","n"," ","K","e","d","i","r","i">>>>,
      <<<<"r","a","g","i","l"," ","k","u","n","i","n","g">>,
        <<"D","e","w","i"," ","R","a","g","i","l"," ","K","u","n","i","n","g">>>>,
      <<<<"p","u","t","r","i"," ","s","a","n","g","g","a","l","a","n","g","i","t">>,
        <<"P","u","t","r","i"," ","S","a","n","g","g","a","l","a","n","g","i","t">>>>,
      <<<<"s","i","n","g","a","b","a","r","o","n","g">>,
        <<"R","a","j","a"," ","S","i","n","g","a","b","a","r","o","n","g">>>>,
      <<<<"b","u","j","a","n","g","a","n","o","m">>,
        <<"B","u","j","a","n","g","a","n","o","m">>>>,
      <<<<"w","a","r","o","k">>,
        <<"W","a","r","o","k">>>>,
      <<<<"d","a","d","a","k"," ","m","e","r","a","k">>,
        <<"D","a","d","a","k"," ","M","e","r","a","k">>>>,
      <<<<"g","a","n","o","n","g","a","n">>,
        <<"G","a","n","o","n","g","a","n">>>>,
      <<<<"b","u","j","a","n","g"," ","g","a","n","o","n","g">>,
        <<"B","u","j","a","n","g"," ","G","a","n","o","n","g">>>>,
      <<<<"j","a","r","a","n"," ","k","e","p","a","n","g">>,
        <<"J","a","r","a","n"," ","K","e","p","a","n","g">>>>,
      <<<<"j","a","t","h","i","l","a","n">>,
        <<"J","a","t","h","i","l","a","n">>>>,
      <<<<"p","e","c","u","t">>,
        <<"P","e","c","u","t">>>>,
      <<<<"c","e","m","e","t","i">>,
        <<"C","e","m","e","t","i">>>>,
      <<<<"b","a","r","o","n","g","a","n">>,
        <<"B","a","r","o","n","g","a","n">>>>,
      <<<<"g","a","m","e","l","a","n">>,
        <<"G","a","m","e","l","a","n">>>>,
      <<<<"a","n","g","k","l","u","n","g"," ","r","e","o","g">>,
        <<"A","n","g","k","l","u","n","g"," ","R","e","o","g">>>>,
      <<<<"t","e","r","o","m","p","e","t"," ","r","e","o","g">>,
        <<"T","e","r","o","m","p","e","t"," ","R","e","o","g">>>>,
      <<<<"k","o","n","g","k","i","l">>,
        <<"K","o","n","g","k","i","l">>>>,
      <<<<"k","e","n","d","a","n","g">>,
        <<"K","e","n","d","a","n","g">>>>,
      <<<<"s","a","r","o","n">>,
        <<"S","a","r","o","n">>>>,
      <<<<"g","o","n","g">>,
        <<"G","o","n","g">>>>,
      <<<<"k","e","m","p","u","l">>,
        <<"K","e","m","p","u","l">>>>,
      <<<<"u","n","e","s","c","o">>,
        <<"U","N","E","S","C","O">>>>,
      <<<<"c","r","e","a","t","i","v","e"," ","c","i","t","i","e","s"," ","n","e","t","w","o","r","k">>,
        <<"C","r","e","a","t","i","v","e"," ","C","i","t","i","e","s"," ","N","e","t","w","o","r","k">>>>,
      <<<<"m","u","s","e","u","m"," ","r","e","o","g"," ","p","o","n","o","r","o","g","o">>,
        <<"M","u","s","e","u","m"," ","R","e","o","g"," ","P","o","n","o","r","o","g","o">>>>
    >>

\* self.important_terms
important_terms ==
    <<
      <<"R","e","o","g"," ","P","o","n","o","r","o","g","o">>,
      <<"P","o","n","o","r","o","g","o">>,
      <<"R","a","j","a"," ","K","l","o","n","o"," ","S","e","w","a","n","d","o","n","o">>,
      <<"K","e","r","a","j","a","a","n"," ","B","a","n","t","a","r","a","n","g","i","n">>,
      <<"K","e","r","a","j","a","a","n"," ","K","e","d","i","r","i">>,
      <<"D","e","w","i"," ","R","a","g","i","l"," ","K","u","n","i","n","g">>,
      <<"P","u","t","r","i"," ","S","a","n","g","g","a","l","a","n","g","i","t">>,
      <<"R","a","j","a"," ","S","i","n","g","a","b","a","r","o","n","g">>,
      <<"B","u","j","a","n","g","a","n","o","m">>,
      <<"W","a","r","o","k">>,
      <<"D","a","d","a","k"," ","M","e","r","a","k">>,
      <<"G","a","n","o","n","g","a","n">>,
      <<"B","u","j","a","n","g"," ","G","a","n","o","n","g">>,
      <<"J","a","r","a","n"," ","K","e","p","a","n","g">>,
      <<"J","a","t","h","i","l","a","n">>,
      <<"P","e","c","u","t">>,
      <<"C","e","m","e","t","i">>,
      <<"B","a","r","o","n","g","a","n">>,
      <<"G","a","m","e","l","a","n">>,
      <<"A","n","g","k","l","u","n","g"," ","R","e","o","g">>,
      <<"T","e","r","o","m","p","e","t"," ","R","e","o","g">>,
      <<"K","o","n","g","k","i","l">>,
      <<"K","e","n","d","a","n","g">>,
      <<"S","a","r","o","n">>,
      <<"G","o","n","g">>,
      <<"K","e","m","p","u","l">>,
      <<"U","N","E","S","C","O">>,
      <<"C","r","e","a","t","i","v","e"," ","C","i","t","i","e","s"," ","N","e","t","w","o","r","k">>,
      <<"M","u","s","e","u","m"," ","R","e","o","g"," ","P","o","n","o","r","o","g","o">>
    >>

\* text.lower()
normalize_case(text) == Lower(text)

Digits == {"0", "1", "2", "3", "4", "5", "6", "7", "8", "9"}

\* a character of [a-zA-Z0-9\s.,!?]
IsWanted(c) ==
    \/ IsLowerChar(c) \/ IsUpperChar(c) \/ c \in Digits
    \/ c \in Whitespace \/ c \in {".", ",", "!", "?"}

\* re.sub(r"[^a-zA-Z0-9\s.,!?]", "", text)
remove_unwanted_chars(text) == SelectSeq(text, IsWanted)

\* old stands in s at p; with ignore_case, whatever the case of the letters
OccursAt(s, old, p, ignore_case) ==
    /\ p + Len(old) - 1 <= Len(s)
    /\ LET there == SubSeq(s, p, p + Len(old) - 1)
       IN  IF ignore_case THEN Lower(there) = Lower(old) ELSE there = old

\* the first occurrence of old at or after from, Len(s) + 1 when there is none
FirstOccurrence(s, old, from, ignore_case) ==
    CHOOSE p \in from..(Len(s) + 1) :
        /\ p = Len(s) + 1 \/ OccursAt(s, old, p, ignore_case)
        /\ \A q \in from..(p - 1) : ~OccursAt(s, old, q, ignore_case)

\* the occurrences of old from left to right, none overlapping another, each
\* replaced by new
RECURSIVE ReplaceFrom(_, _, _, _, _)
ReplaceFrom(s, old, new, from, ignore_case) ==
    LET p == FirstOccurrence(s, old, from, ignore_case)
    IN  IF p > Len(s) THEN SubSeq(s, from, Len(s))
        ELSE SubSeq(s, from, p - 1) \o new
             \o ReplaceFrom(s, old, new, p + Len(old), ignore_case)

\* normalized.replace(wrong, correct)
Replace(s, wrong, correct) == ReplaceFrom(s, wrong, correct, 1, FALSE)

\* for wrong, correct in self.replacements.items(), entries lo..hi in order
RECURSIVE ApplyEntries(_, _, _)
ApplyEntries(normalized, lo, hi) ==
    IF lo > hi THEN normalized
    ELSE IF lo = hi THEN Replace(normalized, replacements[lo][1], replacements[lo][2])
    ELSE LET mid == (lo + hi) \div 2
             half == ApplyEntries(normalized, lo, mid)
         IN  \* the entries lo..mid are done (half has its value) before mid + 1
             IF half = half THEN ApplyEntries(half, mid + 1, hi) ELSE half

\* apply_dictionary(text)
apply_dictionary(text) == ApplyEntries(text, 1, Len(replacements))

\* cutoff = 0.8
CutoffNum == 4
CutoffDen == 5

\* the length of the longest common run that begins at a[i] and b[j] and stays
\* within a[..ahi] and b[..bhi]
RunLength(a, b, i, j, ahi, bhi) ==
    LET most == Min(ahi - i + 1, bhi - j + 1)
    IN  CHOOSE k \in 0..most :
            /\ \A d \in 0..(k - 1) : a[i + d] = b[j + d]
            /\ k = most \/ a[i + k] # b[j + k]

\* SequenceMatcher.find_longest_match: the longest block a[i..] = b[j..] within
\* a[alo..ahi] and b[blo..bhi]; of the longest the one that starts earliest
\* in a, and of those the one that starts earliest in b
LongestMatch(a, b, alo, ahi, blo, bhi) ==
    LET sizes == {RunLength(a, b, i, j, ahi, bhi) : i \in alo..ahi, j \in blo..bhi}
        size == CHOOSE k \in sizes : \A other \in sizes : other <= k
        i == CHOOSE i1 \in alo..ahi :
                 /\ \E j1 \in blo..bhi : RunLength(a, b, i1, j1, ahi, bhi) = size
                 /\ \A i2 \in alo..(i1 - 1) :
                        \A j1 \in blo..bhi : RunLength(a, b, i2, j1, ahi, bhi) # size
        j == CHOOSE j1 \in blo..bhi :
                 /\ RunLength(a, b, i, j1, ahi, bhi) = size
                 /\ \A j2 \in blo..(j1 - 1) : RunLength(a, b, i, j2, ahi, bhi) # size
    IN  [i |-> i, j |-> j, size |-> size]

\* SequenceMatcher.get_matching_blocks: the sizes of the blocks, summed
RECURSIVE MatchingSize(_, _, _, _, _, _)
MatchingSize(a, b, alo, ahi, blo, bhi) ==
    IF alo > ahi \/ blo > bhi THEN 0
    ELSE LET m == LongestMatch(a, b, alo, ahi, blo, bhi)
         IN  IF m.size = 0 THEN 0
             ELSE m.size
                  + MatchingSize(a, b, alo, m.i - 1, blo, m.j - 1)
                  + MatchingSize(a, b, m.i + m.size, ahi, m.j + m.size, bhi)

\* 2.0 * matches / length, as an exact fraction (1.0 when both are empty)
CalculateRatio(matches, length) ==
    IF length = 0 THEN [num |-> 1, den |-> 1] ELSE [num |-> 2 * matches, den |-> length]

\* SequenceMatcher(a=term, b=word).ratio()
Ratio(a, b) ==
    CalculateRatio(MatchingSize(a, b, 1, Len(a), 1, Len(b)), Len(a) + Len(b))

\* SequenceMatcher.real_quick_ratio(): an upper bound from the lengths
RealQuickRatio(a, b) == CalculateRatio(Min(Len(a), Len(b)), Len(a) + Len(b))

\* SequenceMatcher.quick_ratio(): an upper bound from the characters in common,
\* whatever their order
QuickRatio(a, b) ==
    LET common == {i \in 1..Len(a) :
                      Cardinality({h \in 1..i : a[h] = a[i]})
                          <= Cardinality({j \in 1..Len(b) : b[j] = a[i]})}
    IN  CalculateRatio(Cardinality(common), Len(a) + Len(b))

\* ratio >= cutoff
ReachesCutoff(ratio) == ratio.num * CutoffDen >= CutoffNum * ratio.den

\* the characters of the important terms in the order of their code points
CodePoints == <<" ">> \o UpperLetters \o LowerLetters

\* Python's x < y on str
StrLess(x, y) ==
    \E p \in 1..(Len(y)) :
        /\ \A q \in 1..(p - 1) : q <= Len(x) /\ x[q] = y[q]
        /\ \/ p = Len(x) + 1
           \/ p <= Len(x) /\ IndexIn(x[p], CodePoints) < IndexIn(y[p], CodePoints)

\* (score, x) < (score2, y) on the tuples get_close_matches collects
LessClose(k1, k2, word) ==
    LET r1 == Ratio(important_terms[k1], word)
        r2 == Ratio(important_terms[k2], word)
    IN  \/ r1.num * r2.den < r2.num * r1.den
        \/ /\ r1.num * r2.den = r2.num * r1.den
           /\ StrLess(important_terms[k1], important_terms[k2])

\* the terms get_close_matches keeps: all three ratios reach the cutoff
CloseTerms(word) ==
    {k \in 1..Len(important_terms) :
        /\ ReachesCutoff(RealQuickRatio(important_terms[k], word))
        /\ ReachesCutoff(QuickRatio(important_terms[k], word))
        /\ ReachesCutoff(Ratio(important_terms[k], word))}

\* difflib.get_close_matches(word, self.important_terms, n=1, cutoff=cutoff):
\* the term with the largest (score, term), or the word when there is none
CorrectedWord(word) ==
    LET close == CloseTerms(word)
    IN  IF close = {} THEN word
        ELSE important_terms[CHOOSE k \in close :
                                 \A other \in close \ {k} : LessClose(other, k, word)]

\* fuzzy_replace(text): every word corrected, the words joined by single spaces
fuzzy_replace(text) ==
    LET words == Words(text)
    IN  JoinWords([k \in 1..Len(words) |-> CorrectedWord(words[k])])

\* re.sub(term.lower(), term, normalized, flags=re.IGNORECASE)
SubIgnoreCase(normalized, term) == ReplaceFrom(normalized, Lower(term), term, 1, TRUE)

\* for term in self.important_terms, terms lo..hi in order
RECURSIVE CapitalizeTerms(_, _, _)
CapitalizeTerms(normalized, lo, hi) ==
    IF lo > hi THEN normalized
    ELSE IF lo = hi THEN SubIgnoreCase(normalized, important_terms[lo])
    ELSE LET mid == (lo + hi) \div 2
             half == CapitalizeTerms(normalized, lo, mid)
         IN  \* the terms lo..mid are done (half has its value) before mid + 1
             IF half = half THEN CapitalizeTerms(half, mid + 1, hi) ELSE half

\* capitalize_terms(text)
capitalize_terms(text) == CapitalizeTerms(text, 1, Len(important_terms))

\* normalize(text): the five steps, then strip()
normalize(text) ==
    LET step1 == normalize_case(text)
        step2 == remove_unwanted_chars(step1)
        step3 == apply_dictionary(step2)
        step4 == fuzzy_replace(step3)
        step5 == capitalize_terms(step4)
    IN  Strip(step5)

\* texts given to normalize: the important terms, the misheard forms of the
\* dictionary, and transcriptions with typos, punctuation and other words
Transcriptions ==
    { important_terms[k] : k \in 1..Len(important_terms) }
    \cup { replacements[k][1] : k \in 1..Len(replacements) }
    \cup {
      <<"R","e","o","g">>,
      <<"r","e","o","g"," ","p","o","n","o","r","o","g","o"," ","a","d","a","l","a","h"," ","k","e","s","e","n","i","a","n"," ","d","a","r","i"," ","p","o","n","o","r","o","g","o">>,
      <<"g","a","m","e","l","a","n","g">>,
      <<"p","o","n","o","r","o","g","o","o">>,
      <<" "," ","w","a","r","o","k"," "," ">>,
      <<"R","e","o","g","-","P","o","n","o","r","o","g","o","!">>,
      <<"t","a","r","i"," ","j","a","t","h","i","l","a","n"," ","d","a","n"," ","w","a","r","o","g">>,
      <<"k","e","n","d","a","n">>,
      <<"G","a","n","o","n","g">>,
      <<"t","a","r","i","a","n"," ","d","a","r","i"," ","k","e","d","i","r","i",","," ","j","a","w","a"," ","t","i","m","u","r",".">>
    }

NormalizerIdle == [pc |-> "idle", text |-> <<>>, results |-> <<>>]

----------------------------------------------------------------------------
(* KnowledgeBasePreprocessor: clean_text and process_txt_file *)

\* how many files one preprocessor is given
MaxFiles == 4

\* chunk_text(content, max_chunk_size=600, overlap=50), min_chunk_size=100
FileMaxChunkSize == 600
FileOverlap == 50
DefaultMinChunkSize == 100

\* if len(chunk) < 100: continue
ShortChunk == 100

\* text = re.sub(r'\s+', ' ', text): each run of whitespace becomes one space
CollapseWhitespace(text) ==
    LET IsFirstOfRun(i) == i = 1 \/ text[i - 1] \notin Whitespace
        marked == [i \in 1..Len(text) |->
                      IF text[i] \in Whitespace
                      THEN [char |-> " ", keep |-> IsFirstOfRun(i)]
                      ELSE [char |-> text[i], keep |-> TRUE]]
        IsKept(m) == m.keep
        kept == SelectSeq(marked, IsKept)
    IN  [i \in 1..Len(kept) |-> kept[i].char]

\* a character of [\w\s\.\,\!\?\-\:\;\'\"]  (the em dash of the pattern does
\* not occur in the files here)
IsAllowed(c) ==
    \/ IsLowerChar(c) \/ IsUpperChar(c) \/ c \in Digits \/ c = "_"
    \/ c \in Whitespace
    \/ c \in {".", ",", "!", "?", "-", ":", ";", "'", "\""}

\* text = re.sub(r'[^\w\s\.\,\!\?\-\—\:\;\'\"]', '', text)
RemoveSpecial(text) == SelectSeq(text, IsAllowed)

\* clean_text(text); the curly quotes its replace calls look for were removed
\* by the line before them, so those calls change nothing
clean_text(text) == Strip(RemoveSpecial(CollapseWhitespace(text)))

\* the format 04d
ZeroPadded4(n) ==
    LET digits == Decimal(n)
    IN  [i \in 1..(IF Len(digits) < 4 THEN 4 - Len(digits) ELSE 0) |-> "0"] \o digits

\* len(self.documents) + 1
NextDocNumber_Stuck(documents) == IF documents = <<>> THEN 1 ELSE Len(documents)

\* len(self.documents) + 1
NextDocNumber(documents) == Len(documents) + 1

\* doc_id = f"doc_{len(self.documents) + 1:04d}"
DocId(documents) == <<"d", "o", "c", "_">> \o ZeroPadded4(NextDocNumber(documents))

\* file_path.stem: the name without its last suffix
Stem(name) ==
    LET dots == {i \in 2..Len(name) : name[i] = "."}
    IN  IF dots = {} THEN name
        ELSE SubSeq(name, 1, (CHOOSE i \in dots : \A j \in dots : j <= i) - 1)

\* re.sub(r'^\d+_', '', title)
WithoutNumbering(title) ==
    LET n == CHOOSE k \in 0..Len(title) :
                 /\ \A i \in 1..k : title[i] \in Digits
                 /\ k = Len(title) \/ title[k + 1] \notin Digits
    IN  IF n > 0 /\ n < Len(title) /\ title[n + 1] = "_"
        THEN DropFirst(title, n + 1)
        ELSE title

IsLetter(c) == IsLowerChar(c) \/ IsUpperChar(c)

\* title.replace('_', ' ').title()
TitleCase(title) ==
    [i \in 1..Len(title) |->
        IF title[i] = "_" THEN " "
        ELSE IF ~IsLetter(title[i]) THEN title[i]
        ELSE IF i = 1 \/ ~IsLetter(title[i - 1]) THEN UpperChar(title[i])
        ELSE LowerChar(title[i])]

\* the title taken from the file name
FileTitle(name) == TitleCase(WithoutNumbering(Stem(name)))

\* f"{title} - Part {i+1}" if len(chunks) > 1 else title
DocTitleOf(title, i, chunks) ==
    IF Len(chunks) > 1
    THEN title \o <<" ", "-", " ", "P", "a", "r", "t", " ">> \o Decimal(i + 1)
    ELSE title

\* the stopwords of extract_keywords
stopwords ==
    { <<"y","a","n","g">>, <<"d","a","n">>, <<"d","i">>, <<"k","e">>, <<"d","a","r","i">>,
      <<"u","n","t","u","k">>, <<"p","a","d","a">>, <<"d","e","n","g","a","n">>,
      <<"a","d","a","l","a","h">>, <<"i","n","i">>, <<"i","t","u">>, <<"a","t","a","u">>,
      <<"o","l","e","h">>, <<"d","a","l","a","m">>, <<"a","k","a","n">>, <<"t","e","l","a","h">>,
      <<"d","a","p","a","t">>, <<"a","d","a">>, <<"s","e","b","a","g","a","i">>,
      <<"j","u","g","a">>, <<"t","i","d","a","k">>, <<"m","e","r","e","k","a">>,
      <<"k","a","m","i">>, <<"t","h","e">>, <<"a">>, <<"a","n">>, <<"i","n">>, <<"o","n">>,
      <<"a","t">>, <<"t","o">>, <<"f","o","r">>, <<"o","f">>, <<"a","n","d">>, <<"i","s">>,
      <<"a","r","e">>, <<"w","a","s">>, <<"w","e","r","e">>, <<"b","e">>, <<"b","e","e","n">>,
      <<"b","e","i","n","g">>, <<"h","a","v","e">>, <<"h","a","s">>, <<"h","a","d">>, <<"d","o">>,
      <<"d","o","e","s">>, <<"d","i","d">>, <<"w","i","l","l">>, <<"w","o","u","l","d">>,
      <<"c","o","u","l","d">>, <<"s","h","o","u","l","d">> }

\* extract_keywords(text, top_n=5)
DefaultTopN == 5

\* a character of \w
IsWordChar(c) == IsLowerChar(c) \/ IsUpperChar(c) \/ c \in Digits \/ c = "_"

\* extract_keywords(text, top_n): the words of re.findall(r'\b\w+\b', text.lower())
\* that are no stopword and longer than 3, counted, sorted by descending count
\* (sorted is stable, so words of equal count stay in order of first
\* occurrence), and the first top_n of them
extract_keywords(text, top_n) ==
    LET lowered == Lower(text)
        n == Len(lowered)
        isWord == [i \in 1..n |-> IsWordChar(lowered[i])]
        positions == [i \in 1..n |-> i]
        IsStart(i) == isWord[i] /\ (i = 1 \/ ~isWord[i - 1])
        IsEnd(i) == isWord[i] /\ (i = n \/ ~isWord[i + 1])
        starts == SelectSeq(positions, IsStart)
        ends == SelectSeq(positions, IsEnd)
        found == [k \in 1..Len(starts) |-> SubSeq(lowered, starts[k], ends[k])]
        IsKept(w) == w \notin stopwords /\ Len(w) > 3
        words == SelectSeq(found, IsKept)
        m == Len(words)
        IsFirst(k) == \A j \in 1..(k - 1) : words[j] # words[k]
        firsts == SelectSeq([k \in 1..m |-> k], IsFirst)
        d == Len(firsts)
        word_freq == [e \in 1..d |->
                         [word |-> words[firsts[e]],
                          freq |-> Cardinality({j \in 1..m : words[j] = words[firsts[e]]})]]
        Before(a, b) ==
            \/ word_freq[a].freq > word_freq[b].freq
            \/ word_freq[a].freq = word_freq[b].freq /\ a < b
        Rank(b) == Cardinality({a \in 1..d : Before(a, b)})
        sorted_words == [r \in 1..d |-> word_freq[CHOOSE b \in 1..d : Rank(b) = r - 1]]
    IN  [r \in 1..Min(top_n, d) |-> sorted_words[r].word]

\* the document of chunk i (counted from 0)
Document(documents, file, chunks, i) ==
    [id |-> DocId(documents),
     category |-> file.category,
     title |-> DocTitleOf(FileTitle(file.name), i, chunks),
     language |-> file.language,
     content |-> chunks[i + 1],
     keywords |-> extract_keywords(chunks[i + 1], DefaultTopN),
     metadata |-> [source_file |-> file.name,
                   chunk_index |-> i,
                   total_chunks |-> Len(chunks),
                   word_count |-> Len(Words(chunks[i + 1])),
                   char_count |-> Len(chunks[i + 1])]]

\* for i, chunk in enumerate(chunks), from chunk i on: a chunk shorter than
\* 100 characters is skipped, any other is appended as a document
RECURSIVE AppendChunks(_, _, _, _)
AppendChunks(documents, file, chunks, i) ==
    IF i >= Len(chunks) THEN documents
    ELSE IF Len(chunks[i + 1]) < ShortChunk
    THEN AppendChunks(documents, file, chunks, i + 1)
    ELSE LET appended == Append(documents, Document(documents, file, chunks, i))
         IN  \* the document of chunk i is appended before chunk i + 1 is looked at
             IF appended = appended
             THEN AppendChunks(appended, file, chunks, i + 1)
             ELSE appended

\* n characters of prose: words of five letters, a full stop at the end
Prose(n) ==
    [i \in 1..n |-> IF i = n THEN "." ELSE IF i % 6 = 0 THEN " " ELSE "a"]

\* the files of the raw data directory: an empty one, a blank one, one too
\* short to keep, one of a single chunk, one of several chunks, one that
\* begins with a short sentence before a long one, one with a sentence longer
\* than a chunk, one that cannot be read, and one with characters to clean
SourceFiles ==
    { [name |-> <<"0","1","_","k","o","s","o","n","g",".","t","x","t">>, category |-> "sejarah", language |-> "id", readable |-> TRUE,
       content |-> <<>>],
      [name |-> <<"0","2","_","b","l","a","n","k",".","t","x","t">>, category |-> "sejarah", language |-> "en", readable |-> TRUE,
       content |-> <<" ", "\n", " ">>],
      [name |-> <<"0","3","_","c","a","t","a","t","a","n","_","p","e","n","d","e","k",".","t","x","t">>, category |-> "tokoh", language |-> "id", readable |-> TRUE,
       content |-> Prose(40)],
      [name |-> <<"0","4","_","w","a","r","o","k",".","t","x","t">>, category |-> "tokoh", language |-> "en", readable |-> TRUE,
       content |-> Prose(150)],
      [name |-> <<"0","5","_","a","s","a","l","_","u","s","u","l","_","r","e","o","g",".","t","x","t">>, category |-> "sejarah", language |-> "id", readable |-> TRUE,
       content |-> Prose(300) \o Space \o Prose(300) \o Space \o Prose(300)],
      [name |-> <<"0","6","_","s","a","l","a","m",".","t","x","t">>, category |-> "faq", language |-> "en", readable |-> TRUE,
       content |-> <<"H", "i", ".", " ">> \o Prose(599)],
      [name |-> <<"0","7","_","t","a","n","p","a","_","j","e","d","a",".","t","x","t">>, category |-> "faq", language |-> "id", readable |-> TRUE,
       content |-> [i \in 1..700 |-> IF i = 700 THEN "." ELSE "a"] \o Space \o Prose(20)],
      [name |-> <<"0","8","_","r","u","s","a","k",".","t","x","t">>, category |-> "tokoh", language |-> "id", readable |-> FALSE,
       content |-> <<>>],
      [name |-> <<"0","9","_","d","a","d","a","k","_","m","e","r","a","k",".","t","x","t">>, category |-> "kostum", language |-> "en", readable |-> TRUE,
       content |-> <<" ", " ">> \o Prose(120) \o <<" ", "#", " ", "\n">> \o Prose(130)
                   \o <<"\n">>] }

\* chunks = self.chunk_text(content, max_chunk_size=600, overlap=50) on the
\* cleaned content of each file
FileChunks ==
    [file \in SourceFiles |->
        chunk_text(clean_text(file.content), FileMaxChunkSize, FileOverlap,
                   DefaultMinChunkSize)]

\* process_txt_file(file_path, category, language): self.documents afterwards.
\* A file that cannot be read raises inside the try and is only logged; so is
\* a file whose content is blank.
process_txt_file(documents, file) ==
    IF ~file.readable THEN documents
    ELSE IF Strip(file.content) = <<>> THEN documents
    ELSE AppendChunks(documents, file, FileChunks[file], 0)

\* KnowledgeBasePreprocessor(): self.documents = []
PreprocessorIdle == [pc |-> "idle", documents |-> <<>>, processed |-> <<>>]

----------------------------------------------------------------------------
(* The callers and the state machine *)

\* the questions and queries callers pass
Questions ==
    { <<>>,
      <<" ","\t">>,
      <<"A","p","a"," ","i","t","u"," ","R","e","o","g","?">>,
      <<" ","W","h","a","t"," ","i","s"," ","R","e","o","g","?"," ">>,
      <<"R","e","o","g">>,
      <<"R","e","o","g"," ","i","t","u"," ","w","h","a","t","?">> }

\* language: 'id', 'en', or None for auto
Languages == {"id", "en"}
LanguageArgs == Languages \cup {None}

Categories == {"sejarah", "tokoh"}

NoCall == [op |-> "none"]
NoOutcome == [raised |-> FALSE, value |-> None]

\* RAGService() has called load_knowledge_base(): the collection holds the
\* knowledge base, or nothing when its source file is missing
Init ==
    /\ collection \in {DocIds, {}}
    /\ pc = "idle"
    /\ request = NoCall
    /\ outcome = NoOutcome
    /\ calls = <<>>
    /\ loader = LoaderIdle
    /\ observed = NotObserved
    /\ chunker = ChunkerIdle
    /\ normalizer = NormalizerIdle
    /\ preprocessor = PreprocessorIdle

\* a caller runs rag.answer_question(question, language, top_k, ...)
AnswerQuestion ==
    /\ pc = "idle"
    /\ \E question \in Questions, language \in LanguageArgs,
          top_k \in {<<>>} \cup {<<k>> : k \in 0..MaxTopK},
          return_sources \in BOOLEAN, return_timing \in BOOLEAN :
          \E run \in answer_question(collection, question, language, top_k,
                                     return_sources, return_timing) :
              /\ request' = [op |-> "answer_question", question |-> question,
                             language |-> language, top_k |-> top_k,
                             return_sources |-> return_sources,
                             return_timing |-> return_timing]
              /\ outcome' = [raised |-> FALSE, value |-> run.response]
              /\ calls' = run.calls
    /\ pc' = "returned"
    /\ UNCHANGED collection
    /\ UNCHANGED offlineVars

\* a caller runs embedding_service.search(query, top_k, language_filter,
\* category_filter) directly
SearchCall ==
    /\ pc = "idle"
    /\ \E query \in Questions, top_k \in {<<>>} \cup {<<k>> : k \in 1..MaxTopK},
          language_filter \in LanguageArgs, category_filter \in Categories \cup {None} :
          LET sent == SearchQuery(query, top_k, language_filter, category_filter)
          IN  \E db \in DbOutcomes(collection, sent.n_results, sent.where) :
                  /\ request' = [op |-> "search", query |-> query, top_k |-> top_k,
                                 language_filter |-> language_filter,
                                 category_filter |-> category_filter]
                  /\ outcome' = Search(db)
                  /\ calls' = <<[op |-> "search", query |-> sent, reply |-> db,
                                 outcome |-> Search(db)]>>
    /\ pc' = "returned"
    /\ UNCHANGED collection
    /\ UNCHANGED offlineVars

\* the caller takes the result; the service is ready for the next call
Return ==
    /\ pc = "returned"
    /\ pc' = "idle"
    /\ request' = NoCall
    /\ outcome' = NoOutcome
    /\ calls' = <<>>
    /\ UNCHANGED collection
    /\ UNCHANGED offlineVars

Next == AnswerQuestion \/ SearchCall \/ Return

Spec == Init /\ [][Next]_vars

----------------------------------------------------------------------------
(* Loading the knowledge base while searches run *)

\* the collection is empty or loaded, and the source file is what it is
InitLoad ==
    /\ \E source \in Sources :
          /\ loader = [LoaderIdle EXCEPT !.source = source]
          /\ collection \in StoresBefore(source)
    /\ observed = NotObserved
    /\ pc = "idle"
    /\ request = NoCall
    /\ outcome = NoOutcome
    /\ calls = <<>>
    /\ chunker = ChunkerIdle
    /\ normalizer = NormalizerIdle
    /\ preprocessor = PreprocessorIdle

restLoad == <<serviceVars, chunker, normalizer, preprocessor>>

\* load_knowledge_base(force_reload): existing_count = self.collection.count(),
\* then return at once, or go on to clear the collection, or to the source file
LoadKnowledgeBase ==
    /\ loader.pc = "idle"
    /\ \E force_reload \in BOOLEAN :
          LET existing_count == Cardinality(collection)
          IN  loader' = [loader EXCEPT
                  !.force_reload = force_reload,
                  !.before = collection,
                  !.i = 0, !.ops = <<>>, !.added = <<>>,
                  !.pc = IF AlreadyLoaded(existing_count, force_reload) THEN "returned"
                         ELSE IF MustClear(existing_count, force_reload) THEN "deleting"
                         ELSE "opening"]
    /\ UNCHANGED <<collection, observed, restLoad>>

\* self.chroma_client.delete_collection(config.CHROMA_COLLECTION_NAME)
DeleteCollection ==
    /\ loader.pc = "deleting"
    /\ collection' = {}
    /\ loader' = [loader EXCEPT !.pc = "creating",
                                !.ops = Append(@, "delete_collection"),
                                !.partial = FALSE]
    /\ UNCHANGED <<observed, restLoad>>

\* self.collection = self.chroma_client.create_collection(...)
CreateCollection ==
    /\ loader.pc = "creating"
    /\ loader' = [loader EXCEPT !.pc = "opening",
                                !.ops = Append(@, "create_collection")]
    /\ UNCHANGED <<collection, observed, restLoad>>

\* the file is missing: log and return; otherwise json.load, the ids, texts
\* and metadatas, and embed_batch(texts)
OpenSource ==
    /\ loader.pc = "opening"
    /\ loader' = IF ~loader.source.exists
                 THEN [loader EXCEPT !.pc = "returned", !.ops = Append(@, "exists")]
                 ELSE [loader EXCEPT !.pc = "adding", !.i = 0,
                                     !.ops = @ \o <<"exists", "open", "embed_batch">>]
    /\ UNCHANGED <<collection, observed, restLoad>>

\* one turn of for i in range(0, len(documents), batch_size): collection.add
AddBatch ==
    /\ loader.pc = "adding"
    /\ loader.i < loader.source.n
    /\ LET end_idx == BatchEnd(loader.i, loader.source.n)
       IN  /\ collection' = collection \cup BatchIds(loader.i, end_idx)
           /\ loader' = [loader EXCEPT
                  !.i = @ + BatchSize,
                  !.ops = Append(@, "add"),
                  !.added = Append(@, [lo |-> loader.i + 1, hi |-> end_idx])]
    /\ UNCHANGED <<observed, restLoad>>

\* collection.add raises: the exception leaves load_knowledge_base
AddRaises ==
    /\ loader.pc = "adding"
    /\ loader.i < loader.source.n
    /\ loader' = [loader EXCEPT !.pc = "raised", !.ops = Append(@, "add"),
                                !.partial = @ \/ loader.i > 0]
    /\ UNCHANGED <<collection, observed, restLoad>>

\* the loop is over: load_knowledge_base returns
LoadFinish ==
    /\ loader.pc = "adding"
    /\ loader.i >= loader.source.n
    /\ loader' = [loader EXCEPT !.pc = "returned", !.partial = FALSE]
    /\ UNCHANGED <<collection, observed, restLoad>>

\* the caller of load_knowledge_base goes on
LoadReturn ==
    /\ loader.pc \in {"returned", "raised"}
    /\ loader' = [LoaderIdle EXCEPT !.source = loader.source,
                                    !.partial = loader.partial]
    /\ observed' = NotObserved
    /\ UNCHANGED <<collection, restLoad>>

\* another thread runs search: self.collection.query(...) reads the collection
\* as it is now; between delete_collection and create_collection
\* self.collection names a collection that no longer exists and the query fails
ConcurrentSearch ==
    /\ loader.pc \notin {"idle", "returned", "raised"}
    /\ observed' = [seen |-> TRUE, during |-> loader.pc,
                    force_reload |-> loader.force_reload,
                    failed |-> loader.pc = "creating",
                    visible |-> collection]
    /\ UNCHANGED <<collection, loader, restLoad>>

NextLoad ==
    \/ LoadKnowledgeBase \/ DeleteCollection \/ CreateCollection \/ OpenSource
    \/ AddBatch \/ AddRaises \/ LoadFinish \/ LoadReturn \/ ConcurrentSearch

SpecLoad == InitLoad /\ [][NextLoad]_vars

----------------------------------------------------------------------------
(* Vocabulary of the properties *)

AnswerReturned == pc = "returned" /\ request.op = "answer_question"
SearchReturned == pc = "returned" /\ request.op = "search"
TheResponse == outcome.value

\* the positions in calls of the calls of collaborator op
CallsOf(op) == {i \in 1..Len(calls) : calls[i].op = op}
RaisedCalls == {i \in 1..Len(calls) : calls[i].outcome.raised}

\* empty or made of whitespace only
BlankText(s) == \A i \in 1..Len(s) : s[i] \in Whitespace

\* the language the call answers in: the pinned one, else the detected one
ResolvedLanguage ==
    IF request.language = None THEN _detect_language(Strip(request.question))
    ELSE request.language

LocalizedError(language) == IF language = "id" THEN ErrorMsgId ELSE ErrorMsgEn
LocalizedNoInfo(language) == IF language = "id" THEN NoInfoId ELSE NoInfoEn

\* a ranks at least as high as b (fractions compared exactly)
ScoreGE(a, b) == a.num * b.den >= b.num * a.den

Threshold == [num |-> ThresholdNum, den |-> ThresholdDen]

\* the (id, distance) pairs of a list of result documents
Pairs(documents) ==
    [k \in 1..Len(documents) |->
        [id |-> documents[k].id, distance |-> documents[k].distance]]

\* a is b with some entries left out, the others in b's order
RECURSIVE IsSubsequence(_, _)
IsSubsequence(a, b) ==
    IF a = <<>> THEN TRUE
    ELSE IF b = <<>> THEN FALSE
    ELSE IF Head(a) = Head(b) THEN IsSubsequence(Tail(a), Tail(b))
    ELSE IsSubsequence(a, Tail(b))

----------------------------------------------------------------------------
(* C1: an empty or whitespace-only question, whatever the language argument,
   is answered success=False with a non-empty answer and an 'error' field,
   and neither search nor the generation service is called. *)
C1_BlankQuestionRejected ==
    (AnswerReturned /\ BlankText(request.question)) =>
        /\ ~outcome.raised
        /\ TheResponse.success = FALSE
        /\ TheResponse.answer # <<>>
        /\ "error" \in DOMAIN TheResponse
        /\ calls = <<>>

C1_Witness ==
    /\ AnswerReturned
    /\ request.question # <<>> /\ BlankText(request.question)
    /\ request.language = None
    /\ TheResponse.success = FALSE

(* C2: a non-blank question whose search returns zero documents is answered
   with the fixed no-information message of the resolved language and
   success=False, and generation is never invoked in that call. *)
SearchFoundNothing ==
    \E i \in CallsOf("search") :
        ~calls[i].outcome.raised /\ calls[i].outcome.value = <<>>

C2_NoDocumentsNoGeneration ==
    (AnswerReturned /\ ~BlankText(request.question) /\ SearchFoundNothing) =>
        /\ TheResponse.answer = LocalizedNoInfo(ResolvedLanguage)
        /\ TheResponse.success = FALSE
        /\ CallsOf("generate_answer") = {}
        /\ CallsOf("generate") = {}

C2_Witness ==
    /\ AnswerReturned
    /\ request.language = "en"
    /\ \E i \in CallsOf("search") :
           /\ calls[i].reply.kind = "rows" /\ calls[i].reply.rows # <<>>
           /\ ~calls[i].outcome.raised /\ calls[i].outcome.value = <<>>
    /\ TheResponse.answer = NoInfoEn

(* C3: every response of answer_question has a non-empty answer, and a
   response with success=False carries a fixed message in the Indonesian
   wording when its language is 'id' and in the English wording otherwise:
   the error message when it has an 'error' field, the no-information
   message when it has none. *)
FixedFailureMessage(response) ==
    IF "error" \in DOMAIN response THEN LocalizedError(response.language)
    ELSE LocalizedNoInfo(response.language)

C3_AnswerNeverEmpty ==
    AnswerReturned =>
        /\ TheResponse.answer # <<>>
        /\ (TheResponse.success = FALSE =>
                TheResponse.answer = FixedFailureMessage(TheResponse))

C3_Witness ==
    /\ AnswerReturned
    /\ TheResponse.success = FALSE
    /\ TheResponse.language = "en"
    /\ "error" \in DOMAIN TheResponse
    /\ TheResponse.error = GenerationFailedError
    /\ TheResponse.answer = ErrorMsgEn

(* C4: when language detection, search or the answer composer raises, the
   call still returns: success=False, the answer is exactly the fixed
   localized error message, and the exception text is in 'error' only. *)
C4_ExceptionsBecomeErrorResponses ==
    (AnswerReturned /\ RaisedCalls # {}) =>
        /\ ~outcome.raised
        /\ TheResponse.success = FALSE
        /\ TheResponse.answer = LocalizedError(TheResponse.language)
        /\ "error" \in DOMAIN TheResponse
        /\ \E i \in RaisedCalls : TheResponse.error = calls[i].outcome.exception
        /\ TheResponse.answer # TheResponse.error

C4_Witness ==
    /\ AnswerReturned
    /\ \E i \in RaisedCalls : calls[i].op = "search"
    /\ TheResponse.error = DbError
    /\ TheResponse.answer = ErrorMsgId

(* C5: when the answer composer returns the empty string for documents that
   were retrieved, the response is success=False with the localized error
   message and an 'error' field; no successful response has an empty answer. *)
ComposerReturnedEmpty ==
    \E i \in CallsOf("generate_answer") :
        /\ ~calls[i].outcome.raised
        /\ calls[i].outcome.value = <<>>
        /\ calls[i].context_documents # <<>>

C5_EmptyGenerationIsFailure ==
    AnswerReturned =>
        /\ ComposerReturnedEmpty =>
              /\ TheResponse.success = FALSE
              /\ TheResponse.answer = LocalizedError(ResolvedLanguage)
              /\ "error" \in DOMAIN TheResponse
              /\ TheResponse.error = GenerationFailedError
        /\ TheResponse.success = TRUE => TheResponse.answer # <<>>

C5_Witness ==
    /\ AnswerReturned
    /\ ComposerReturnedEmpty
    /\ \E i \in CallsOf("generate") :
           /\ calls[i].http.kind = "response"
           /\ calls[i].http.status_code = 200
           /\ calls[i].outcome.value # <<>>
    /\ TheResponse.success = FALSE

(* C6: on a timeout, an unreachable service, an exception or a status other
   than 200, generate returns the empty string without raising, and whenever
   generate returns the empty string so does generate_answer. *)
C6_FailedGenerationIsEmpty ==
    \A i \in CallsOf("generate") :
        /\ ~calls[i].outcome.raised
        /\ (calls[i].http.kind # "response" \/ calls[i].http.status_code # 200) =>
               calls[i].outcome.value = <<>>
        /\ calls[i].outcome.value = <<>> =>
               \A j \in CallsOf("generate_answer") :
                   ~calls[j].outcome.raised /\ calls[j].outcome.value = <<>>

C6_Witness ==
    /\ AnswerReturned
    /\ \E i \in CallsOf("generate") :
           calls[i].http.kind = "timeout" /\ calls[i].outcome.value = <<>>
    /\ \E j \in CallsOf("generate_answer") : calls[j].outcome.value = <<>>

(* C7: every response carries a language that is not None; a pinned
   language is returned unchanged on every path; with no language given the
   response language is 'id' or 'en', and 'id' when the call ends before
   detection has returned. *)
DetectionReturned ==
    \E i \in CallsOf("_detect_language") : ~calls[i].outcome.raised

C7_ResponseLanguage ==
    AnswerReturned =>
        /\ TheResponse.language # None
        /\ request.language # None => TheResponse.language = request.language
        /\ request.language = None =>
              /\ TheResponse.language \in {"id", "en"}
              /\ BlankText(request.question) => TheResponse.language = "id"
              /\ ~DetectionReturned => TheResponse.language = "id"

C7_Witness ==
    /\ AnswerReturned
    /\ request.language = None
    /\ DetectionReturned
    /\ TheResponse.language = "en"

(* C8: for every list of rows the database returns, each entry of search's
   result has score = 1 / (1 + distance) and score >= SCORE_THRESHOLD, the
   entries are exactly the rows that reach the threshold, and the result is
   a list (empty when no row qualifies), not an exception. *)
Qualifies(row) == ScoreGE([num |-> 1, den |-> 1 + row.distance], Threshold)

C8_ScoresAboveThreshold ==
    \A i \in CallsOf("search") :
        calls[i].reply.kind = "rows" =>
            LET rows == calls[i].reply.rows
                result == calls[i].outcome
            IN  /\ ~result.raised
                /\ \A k \in 1..Len(result.value) :
                       /\ result.value[k].score
                              = [num |-> 1, den |-> 1 + result.value[k].distance]
                       /\ ScoreGE(result.value[k].score, Threshold)
                /\ {result.value[k].id : k \in 1..Len(result.value)}
                       = {rows[r].id : r \in {x \in 1..Len(rows) : Qualifies(rows[x])}}
                /\ (\A r \in 1..Len(rows) : ~Qualifies(rows[r])) => result.value = <<>>

C8_Witness ==
    /\ SearchReturned
    /\ calls[1].reply.kind = "rows"
    /\ Len(calls[1].reply.rows) = 3
    /\ ~outcome.raised
    /\ Len(outcome.value) = 2
    /\ outcome.value[2].distance = 7
    /\ calls[1].reply.rows[3].distance = 8

(* C9: the result of search is the database's list (ascending distance)
   with some entries left out and the others in the same order; it has at
   most top_k entries and its scores never increase from first to last. *)
RequestedTopK == IF request.top_k = <<>> THEN RAG_TOP_K ELSE request.top_k[1]

C9_OrderPreserved ==
    \A i \in CallsOf("search") :
        calls[i].reply.kind = "rows" =>
            LET rows == calls[i].reply.rows
                result == calls[i].outcome.value
            IN  /\ IsSubsequence(Pairs(result), rows)
                /\ Len(result) <= calls[i].query.n_results
                /\ SearchReturned => Len(result) <= RequestedTopK
                /\ \A k \in 1..(Len(result) - 1) :
                       ScoreGE(result[k].score, result[k + 1].score)

C9_Witness ==
    /\ SearchReturned
    /\ request.top_k = <<2>>
    /\ ~outcome.raised
    /\ Len(outcome.value) = 2
    /\ outcome.value[1].distance < outcome.value[2].distance

(* C10: if the vector database is unreachable or its query fails, search
   returns an empty list and does not raise. *)
C10_SearchNeverRaises ==
    \A i \in CallsOf("search") :
        calls[i].reply.kind = "unavailable" =>
            ~calls[i].outcome.raised /\ calls[i].outcome.value = <<>>

(* C10 as amended: if the vector database is unreachable or its query fails,
   search raises to its caller and returns no list; it raises in no other
   case, and answer_question turns the exception into its error response. *)
C10_SearchRaisesOnDatabaseFailure ==
    \A i \in CallsOf("search") :
        /\ calls[i].outcome.raised <=> calls[i].reply.kind = "unavailable"
        /\ (AnswerReturned /\ calls[i].outcome.raised) =>
               /\ TheResponse.success = FALSE
               /\ "error" \in DOMAIN TheResponse
               /\ TheResponse.error = calls[i].outcome.exception
               /\ TheResponse.answer = LocalizedError(TheResponse.language)

C10_Witness ==
    /\ SearchReturned
    /\ calls[1].reply.kind = "unavailable"
    /\ outcome.raised


----------------------------------------------------------------------------
(* chunk_text, one turn of its loop at a time *)

\* chunk_text has been called and has split the text into sentences
InitChunk ==
    /\ \E text \in Texts, max_chunk_size \in MaxChunkSizes,
          overlap \in Overlaps, min_chunk_size \in MinChunkSizes :
          chunker = [ChunkerIdle EXCEPT
                        !.pc = "loop", !.text = text,
                        !.max_chunk_size = max_chunk_size, !.overlap = overlap,
                        !.min_chunk_size = min_chunk_size,
                        !.sentences = SplitSentences(text)]
    /\ collection = {}
    /\ pc = "idle"
    /\ request = NoCall
    /\ outcome = NoOutcome
    /\ calls = <<>>
    /\ loader = LoaderIdle
    /\ observed = NotObserved
    /\ normalizer = NormalizerIdle
    /\ preprocessor = PreprocessorIdle

restChunk == <<collection, serviceVars, loader, observed, normalizer, preprocessor>>

InLoop == chunker.pc = "loop" /\ chunker.k <= Len(chunker.sentences)
TheSentenceToAdd == SentenceToAdd(chunker.sentences[chunker.k])

\* the sentence alone is longer than max_chunk_size
OversizedTurn ==
    /\ InLoop
    /\ IsOversized(TheSentenceToAdd, chunker.max_chunk_size)
    /\ chunker' = [chunker EXCEPT !.st = AddOversized(@, TheSentenceToAdd),
                                  !.k = @ + 1]
    /\ UNCHANGED restChunk

\* the sentence does not fit into current_chunk any more
OverflowTurn ==
    /\ InLoop
    /\ ~IsOversized(TheSentenceToAdd, chunker.max_chunk_size)
    /\ Overflows(chunker.st, TheSentenceToAdd, chunker.max_chunk_size)
    /\ chunker' = [chunker EXCEPT
                      !.st = CloseAndSeed(@, TheSentenceToAdd, chunker.overlap),
                      !.k = @ + 1]
    /\ UNCHANGED restChunk

\* the sentence fits
ExtendTurn ==
    /\ InLoop
    /\ ~IsOversized(TheSentenceToAdd, chunker.max_chunk_size)
    /\ ~Overflows(chunker.st, TheSentenceToAdd, chunker.max_chunk_size)
    /\ chunker' = [chunker EXCEPT !.st = Extend(@, TheSentenceToAdd), !.k = @ + 1]
    /\ UNCHANGED restChunk

\* the loop is over: the last chunk, the fallback and the returned list
FinishChunking ==
    /\ chunker.pc = "loop"
    /\ chunker.k > Len(chunker.sentences)
    /\ LET final == AddFinal(chunker.st, chunker.min_chunk_size)
       IN  chunker' = [chunker EXCEPT
                          !.pc = "done",
                          !.st = final,
                          !.result = NonEmptyChunks(OrWholeText(final, chunker.text))]
    /\ UNCHANGED restChunk

NextChunk == OversizedTurn \/ OverflowTurn \/ ExtendTurn \/ FinishChunking

SpecChunk == InitChunk /\ [][NextChunk]_vars

----------------------------------------------------------------------------
(* normalize applied to a transcription, and again to its own result *)

\* a transcription has arrived
InitNormalize ==
    /\ \E text \in Transcriptions :
          normalizer = [pc |-> "ready", text |-> text, results |-> <<>>]
    /\ collection = {}
    /\ pc = "idle"
    /\ request = NoCall
    /\ outcome = NoOutcome
    /\ calls = <<>>
    /\ loader = LoaderIdle
    /\ observed = NotObserved
    /\ chunker = ChunkerIdle
    /\ preprocessor = PreprocessorIdle

restNormalize == <<collection, serviceVars, loader, observed, chunker, preprocessor>>

\* normalizer.normalize(text) on the transcription
Normalize ==
    /\ normalizer.pc = "ready"
    /\ normalizer.results = <<>>
    /\ normalizer' = [normalizer EXCEPT !.results = <<normalize(normalizer.text)>>]
    /\ UNCHANGED restNormalize

\* normalizer.normalize on what the last call returned
NormalizeAgain ==
    /\ normalizer.pc = "ready"
    /\ normalizer.results # <<>>
    /\ Len(normalizer.results) < MaxPasses
    /\ normalizer' = [normalizer EXCEPT
                         !.results = Append(@, normalize(@[Len(@)]))]
    /\ UNCHANGED restNormalize

NextNormalize == Normalize \/ NormalizeAgain

SpecNormalize == InitNormalize /\ [][NextNormalize]_vars

----------------------------------------------------------------------------
(* The preprocessor going through the files of the raw data directory *)

InitPrep ==
    /\ preprocessor = [PreprocessorIdle EXCEPT !.pc = "ready"]
    /\ collection = {}
    /\ pc = "idle"
    /\ request = NoCall
    /\ outcome = NoOutcome
    /\ calls = <<>>
    /\ loader = LoaderIdle
    /\ observed = NotObserved
    /\ chunker = ChunkerIdle
    /\ normalizer = NormalizerIdle

restPrep == <<collection, serviceVars, loader, observed, chunker, normalizer>>

\* process_directory calls self.process_txt_file(txt_file, category_dir,
\* language) for a file it has not processed yet
ProcessTxtFile ==
    /\ preprocessor.pc = "ready"
    /\ Len(preprocessor.processed) < MaxFiles
    /\ \E file \in SourceFiles :
          /\ \A k \in 1..Len(preprocessor.processed) :
                 preprocessor.processed[k] # file.name
          /\ preprocessor' =
                 [preprocessor EXCEPT
                     !.documents = process_txt_file(@, file),
                     !.processed = Append(@, file.name)]
    /\ UNCHANGED restPrep

NextPrep == ProcessTxtFile

SpecPrep == InitPrep /\ [][NextPrep]_vars

----------------------------------------------------------------------------
(* Vocabulary of the loader's properties *)

LoadReturned == loader.pc = "returned"

\* the batches that hold record k
BatchesHolding(k) ==
    {j \in 1..Len(loader.added) : loader.added[j].lo <= k /\ k <= loader.added[j].hi}

----------------------------------------------------------------------------
(* C11: load_knowledge_base(force_reload=False) on a collection that holds at
   least one record returns with the collection as it was, having read no
   source file, embedded nothing and added nothing; so repeated non-forced
   loads leave the collection as the first one left it. *)
C11_LoadedStoreIsKept ==
    (LoadReturned /\ ~loader.force_reload /\ loader.before # {})
        => /\ collection = loader.before
           /\ loader.ops = <<>>
           /\ loader.added = <<>>

C11_Witness ==
    /\ LoadReturned /\ ~loader.force_reload
    /\ loader.before = 1..BatchSize
    /\ loader.source.n > BatchSize
    /\ collection = loader.before

----------------------------------------------------------------------------
(* C12: when load_knowledge_base(force_reload=True) returns normally, the
   collection holds exactly the records of the source knowledge base, one per
   source id, whatever it held before and whatever the number of records is
   relative to the batch size of 100: every record was added in exactly one
   batch. *)
C12_ForcedLoadMirrorsSource ==
    (LoadReturned /\ loader.force_reload)
        => /\ collection = SourceIds(loader.source)
           /\ \A k \in SourceIds(loader.source) : Cardinality(BatchesHolding(k)) = 1

C12_Witness ==
    /\ LoadReturned /\ loader.force_reload
    /\ loader.source.n = 2 * BatchSize + 1
    /\ loader.before = 1..(loader.source.n + 1)
    /\ Len(loader.added) = 3
    /\ collection = 1..loader.source.n

----------------------------------------------------------------------------
(* Vocabulary of the chunker's properties *)

ChunkingDone == chunker.pc = "done"
Chunks == chunker.result.chunks
Seeds == chunker.result.seeds

\* chunk k is one sentence of the text that alone is longer than the maximum
IsStandalone(k) ==
    \E i \in 1..Len(chunker.sentences) :
        /\ Len(chunker.sentences[i]) + 1 > chunker.max_chunk_size
        /\ Chunks[k] = Strip(chunker.sentences[i])

\* chunk k is within the maximum plus the overlap words it was begun with
WithinMaximum(k) == Len(Chunks[k]) <= chunker.max_chunk_size + Len(Seeds[k])

\* the text has no whitespace but single spaces between other characters
IsCleaned(text) ==
    /\ \A i \in 1..Len(text) : text[i] \in Whitespace => text[i] = " "
    /\ text # <<>> => text[1] # " " /\ text[Len(text)] # " "
    /\ \A i \in 1..(Len(text) - 1) : ~(text[i] = " " /\ text[i + 1] = " ")

\* chunk k without the overlap words it was begun with and the space after them
WithoutOverlap(k) ==
    IF Seeds[k] = <<>> THEN Chunks[k] ELSE DropFirst(Chunks[k], Len(Seeds[k]) + 1)

\* the chunks without their overlap prefixes, joined by single spaces
Rejoined == JoinWords([k \in 1..Len(Chunks) |-> WithoutOverlap(k)])

\* the sentences i, i+1, ... each lie whole in a chunk, the chunks of their
\* first appearance at or after chunk from never going back
RECURSIVE AppearInOrder(_, _)
AppearInOrder(i, from) ==
    IF i > Len(chunker.sentences) THEN TRUE
    ELSE IF BlankText(chunker.sentences[i]) THEN AppearInOrder(i + 1, from)
    ELSE \E c \in from..Len(Chunks) :
            /\ Contains(Chunks[c], Strip(chunker.sentences[i]))
            /\ \A d \in from..(c - 1) : ~Contains(Chunks[d], Strip(chunker.sentences[i]))
            /\ AppearInOrder(i + 1, c)

----------------------------------------------------------------------------
(* C13: every chunk chunk_text returns, except possibly the last, has a
   length of at most max_size plus the length of the overlap words it was
   begun with. *)
C13_ChunksWithinMaximum ==
    ChunkingDone => \A k \in 1..(Len(Chunks) - 1) : WithinMaximum(k)

(* C13 as amended: every chunk chunk_text returns, except possibly the last
   and except a chunk that is a single sentence longer than max_size, has a
   length of at most max_size plus the length of the overlap words it was
   begun with. *)
C13_ChunksWithinMaximumUnlessStandalone ==
    ChunkingDone =>
        \A k \in 1..(Len(Chunks) - 1) : WithinMaximum(k) \/ IsStandalone(k)

\* a chunk that is not the last is longer than max_size by its overlap words
C13_Witness ==
    /\ ChunkingDone
    /\ \E k \in 1..(Len(Chunks) - 1) :
          /\ Seeds[k] # <<>>
          /\ Len(Chunks[k]) > chunker.max_chunk_size
          /\ WithinMaximum(k)
          /\ ~IsStandalone(k)

----------------------------------------------------------------------------
(* C14: no chunk chunk_text returns is shorter than min_size unless it is the
   only chunk returned, at whatever position the chunk is. *)
C14_NoShortChunk ==
    (ChunkingDone /\ Len(Chunks) > 1)
        => \A k \in 1..Len(Chunks) : Len(Chunks[k]) >= chunker.min_chunk_size

----------------------------------------------------------------------------
(* C15: for a cleaned text, removing from every chunk after the first the
   overlap words it was begun with and joining the chunks in order with
   single spaces gives the text back exactly, also when the last buffer was
   merged into the chunk before it. *)
C15_RoundTrip ==
    (ChunkingDone /\ IsCleaned(chunker.text)) => Rejoined = chunker.text

----------------------------------------------------------------------------
(* C16: chunk_text loses no sentence: every sentence of the text lies whole
   in at least one returned chunk, and the chunks in which the sentences
   first appear follow the order of the sentences. *)
C16_NoSentenceLost ==
    ChunkingDone => AppearInOrder(1, 1)

\* a short sentence was pending when an oversized one came; both are chunks
C16_Witness ==
    /\ ChunkingDone
    /\ Len(chunker.sentences) = 2
    /\ Len(chunker.sentences[1]) + 1 <= chunker.max_chunk_size
    /\ Len(chunker.sentences[2]) + 1 > chunker.max_chunk_size
    /\ Chunks = <<chunker.sentences[1], chunker.sentences[2]>>

----------------------------------------------------------------------------
(* C17: normalize is idempotent on a text whose domain terms are already in
   their canonical form, such as 'Kerajaan Kediri' or 'Raja Klono
   Sewandono': normalize(normalize(x)) = normalize(x). *)
IsCanonical(text) == \E k \in 1..Len(important_terms) : text = important_terms[k]

C17_NormalizeIdempotent ==
    (IsCanonical(normalizer.text) /\ Len(normalizer.results) >= 2)
        => normalizer.results[2] = normalizer.results[1]

----------------------------------------------------------------------------
(* Vocabulary of the preprocessor's properties *)

Documents == preprocessor.documents

Processed == {preprocessor.processed[k] : k \in 1..Len(preprocessor.processed)}

\* the positions in self.documents of the records persisted for a file
RecordsOf(name) ==
    {d \in 1..Len(Documents) : Documents[d].metadata.source_file = name}

ChunkIndexes(name) == {Documents[d].metadata.chunk_index : d \in RecordsOf(name)}

\* the number an id "doc_NNNN" carries
RECURSIVE DigitsValue(_)
DigitsValue(digits) ==
    IF digits = <<>> THEN 0
    ELSE 10 * DigitsValue(SubSeq(digits, 1, Len(digits) - 1))
         + (CHOOSE v \in 0..9 : DigitChars[v + 1] = digits[Len(digits)])

IdNumber(id) == DigitsValue(DropFirst(id, 4))

FileOf(name) == CHOOSE file \in SourceFiles : file.name = name

\* a file some chunk of which process_txt_file skipped as too short
HasSkippedChunk(name) ==
    /\ FileOf(name).readable
    /\ Strip(FileOf(name).content) # <<>>
    /\ \E i \in 1..Len(FileChunks[FileOf(name)]) :
           Len(FileChunks[FileOf(name)][i]) < ShortChunk

----------------------------------------------------------------------------
(* C18: for every source file processed by process_txt_file, the
   chunk_index values of the records persisted for that file are exactly
   0, 1, ..., k-1 with no gaps, where k is the number of records persisted
   for that file. *)
C18_ChunkIndexContiguous ==
    \A name \in Processed :
        ChunkIndexes(name) = 0..(Cardinality(RecordsOf(name)) - 1)

----------------------------------------------------------------------------
(* C19: after any sequence of process_txt_file calls on one preprocessor,
   files that are empty, fail to read or yield skipped short chunks
   included, the ids of all persisted records are pairwise distinct and
   were assigned in strictly increasing order. *)
C19_IdsDistinctIncreasing ==
    /\ \A d, e \in 1..Len(Documents) : d # e => Documents[d].id # Documents[e].id
    /\ \A d \in 1..(Len(Documents) - 1) :
           IdNumber(Documents[d].id) < IdNumber(Documents[d + 1].id)

\* an empty file, a file that fails to read and a file with a skipped short
\* chunk have been processed, and records of two files are persisted
C19_Witness ==
    /\ \E name \in Processed : FileOf(name).readable /\ FileOf(name).content = <<>>
    /\ \E name \in Processed : ~FileOf(name).readable
    /\ \E name \in Processed : HasSkippedChunk(name) /\ RecordsOf(name) # {}
    /\ Cardinality({Documents[d].metadata.source_file : d \in 1..Len(Documents)}) >= 2
    /\ Len(Documents) >= 3

----------------------------------------------------------------------------
(* C20: a search that runs while load_knowledge_base(force_reload=True) is in
   progress finds either the complete collection the load started from or
   the complete new one; it never finds the collection deleted, emptied or
   loaded with only some of the batches. *)
C20_SearchSeesWholeCollection ==
    (observed.seen /\ observed.force_reload)
        => /\ ~observed.failed
           /\ observed.visible \in {loader.before, SourceIds(loader.source)}

\* a search finds only the first batch of a source of 201 records
C20_Witness ==
    /\ observed.seen /\ observed.force_reload
    /\ loader.source.n = 2 * BatchSize + 1
    /\ loader.before = 1..(2 * BatchSize + 1)
    /\ observed.visible = 1..BatchSize

----------------------------------------------------------------------------
(* Vocabulary of the service's later properties *)

\* the documents search returned to answer_question in this call
RetrievedDocuments ==
    LET i == CHOOSE j \in CallsOf("search") : TRUE
    IN  IF CallsOf("search") = {} \/ calls[i].outcome.raised THEN <<>>
        ELSE calls[i].outcome.value

AnsweredWithSuccess == AnswerReturned /\ TheResponse.success = TRUE

\* milli thousandths is the score rounded to three decimals
IsRoundedTo(score, milli) ==
    LET diff == 1000 * score.num - milli * score.den
    IN  2 * (IF diff < 0 THEN -diff ELSE diff) <= score.den

\* the content when it has at most 150 characters, else its first 150
\* characters followed by '...'
CappedContent(content) ==
    IF Len(content) <= 150 THEN content
    ELSE [k \in 1..153 |-> IF k <= 150 THEN content[k] ELSE "."]

----------------------------------------------------------------------------
(* C21: whenever answer_question is called with return_sources=True, the
   response contains a 'sources' list on every path; on success it has one
   entry per retrieved document in retrieval order, each with title,
   category, score, and an excerpt equal to the content when the content has
   at most 150 characters and otherwise its first 150 characters followed by
   '...'. *)
C21_SourcesReturned ==
    (AnswerReturned /\ request.return_sources) =>
        /\ "sources" \in DOMAIN TheResponse
        /\ TheResponse.success = TRUE =>
               /\ Len(TheResponse.sources) = Len(RetrievedDocuments)
               /\ \A k \in 1..Len(RetrievedDocuments) :
                      LET source == TheResponse.sources[k]
                          doc == RetrievedDocuments[k]
                      IN  /\ DOMAIN source = {"title", "category", "score", "excerpt"}
                          /\ source.title = doc.metadata.title
                          /\ source.category = doc.metadata.category
                          /\ IsRoundedTo(doc.score, source.score)
                          /\ source.excerpt = CappedContent(doc.content)

\* a successful response with two sources, the first short enough to be
\* given whole and the second cut to 150 characters and '...'
C21_Witness ==
    /\ AnsweredWithSuccess
    /\ request.return_sources
    /\ Len(TheResponse.sources) = 2
    /\ TheResponse.sources[1].excerpt = RetrievedDocuments[1].content
    /\ Len(RetrievedDocuments[2].content) = 151
    /\ Len(TheResponse.sources[2].excerpt) = 153

----------------------------------------------------------------------------
(* C22: any response of answer_question that contains 'timing' contains all
   three durations retrieval, generation and total, never a partial record,
   and every successful response to a call with return_timing=True contains
   'timing'. *)
C22_TimingComplete ==
    AnswerReturned =>
        /\ "timing" \in DOMAIN TheResponse =>
               TheResponse.timing = {"retrieval", "generation", "total"}
        /\ (TheResponse.success = TRUE /\ request.return_timing) =>
               "timing" \in DOMAIN TheResponse

\* a successful response to a call that asked for the timing and not for
\* the sources
C22_Witness ==
    /\ AnsweredWithSuccess
    /\ request.return_timing
    /\ ~request.return_sources
    /\ "timing" \in DOMAIN TheResponse
    /\ "sources" \notin DOMAIN TheResponse

----------------------------------------------------------------------------
(* Vocabulary of the chunker's steps *)

\* the buffer and the sentence of the turn that is about to run
Buffer == chunker.st.current_chunk
TurnSentence == chunker.sentences[chunker.k]

\* a turn of the loop has just run
TurnTaken == chunker.pc = "loop" /\ chunker'.pc = "loop" /\ chunker'.k = chunker.k + 1

\* the sentence with its trailing space is longer than max_size on its own
AloneExceeds == Len(TurnSentence) + 1 > chunker.max_chunk_size

\* the sentence fits on its own, but not behind the buffer, which is not empty
WouldExceed ==
    /\ ~AloneExceeds
    /\ Len(Buffer) + Len(TurnSentence) + 1 > chunker.max_chunk_size
    /\ Buffer # <<>>

\* the last n words of a list, all of them when it has fewer
LastWords(words, n) ==
    IF Len(words) <= n THEN words ELSE SubSeq(words, Len(words) - n + 1, Len(words))

\* the chunks emitted by the turn that has just run
Emitted == SubSeq(chunker'.st.chunks, Len(chunker.st.chunks) + 1, Len(chunker'.st.chunks))

----------------------------------------------------------------------------
(* C23: in chunk_text, for every overlap >= 0: when adding a sentence would
   exceed max_size and the buffer is non-empty, the closed chunk is emitted
   and the new buffer is exactly the last floor(overlap/5) words of the
   closed buffer (all its words only if it has fewer than that) followed by
   the new sentence; in particular the seed never has more than
   floor(overlap/5) words, so overlap < 5 seeds no words. *)
C23_SeedIsLastWords ==
    [][(TurnTaken /\ WouldExceed) =>
          LET seed_words == LastWords(Words(Buffer), chunker.overlap \div 5)
          IN  /\ Emitted = <<Strip(Buffer)>>
              /\ Words(chunker'.st.current_chunk) = seed_words \o Words(TurnSentence)
              /\ Len(Words(chunker'.st.seed)) <= chunker.overlap \div 5]_vars

----------------------------------------------------------------------------
(* C24: after all sentences are consumed in chunk_text, the non-empty
   trailing buffer is appended to the last emitted chunk (separated by a
   space) exactly when its stripped length is < min_size and at least one
   chunk was already emitted; otherwise it is emitted as a new final chunk,
   including as the sole chunk when the whole input is shorter than
   min_size. *)
AllConsumed == chunker.pc = "loop" /\ chunker.k > Len(chunker.sentences)
LoopLeft == AllConsumed /\ chunker'.pc = "done"
Trailing == Strip(Buffer)
EmittedBefore == chunker.st.chunks
EmittedAfter == chunker'.st.chunks

TrailingMerged ==
    /\ Len(EmittedAfter) = Len(EmittedBefore)
    /\ \A k \in 1..(Len(EmittedBefore) - 1) : EmittedAfter[k] = EmittedBefore[k]
    /\ EmittedAfter[Len(EmittedAfter)]
           = EmittedBefore[Len(EmittedBefore)] \o <<" ">> \o Trailing

TrailingEmitted == EmittedAfter = EmittedBefore \o <<Trailing>>

C24_TrailingBuffer ==
    [][(LoopLeft /\ Trailing # <<>>) =>
          /\ (Len(Trailing) < chunker.min_chunk_size /\ EmittedBefore # <<>>)
                 => TrailingMerged
          /\ ~(Len(Trailing) < chunker.min_chunk_size /\ EmittedBefore # <<>>)
                 => TrailingEmitted
          /\ EmittedBefore = <<>> => chunker'.result.chunks = <<Trailing>>]_vars

\* a trailing buffer shorter than min_size was merged into the second of
\* two chunks
C24_Witness ==
    /\ ChunkingDone
    /\ Len(Strip(Buffer)) > 0
    /\ Len(Strip(Buffer)) < chunker.min_chunk_size
    /\ Len(Chunks) = 2
    /\ Len(Chunks[2]) > Len(Strip(Buffer)) + 1
    /\ SubSeq(Chunks[2], Len(Chunks[2]) - Len(Strip(Buffer)), Len(Chunks[2]))
           = <<" ">> \o Strip(Buffer)

----------------------------------------------------------------------------
(* C25: in chunk_text the standalone (oversized) path is taken for a
   sentence exactly when the sentence's own length exceeds max_size; on
   that path the pending buffer, if non-blank, is first emitted as its own
   chunk, then the sentence is emitted as a chunk containing only that
   sentence (no overlap prefix, no sub-splitting), and the buffer restarts
   empty. *)

\* the turn that has just run went down the standalone path: only that path
\* leaves the buffer empty
StandaloneTaken == TurnTaken /\ chunker'.st.current_chunk = <<>>

PendingFlushed == IF Strip(Buffer) # <<>> THEN <<Strip(Buffer)>> ELSE <<>>

C25_StandalonePath ==
    [][TurnTaken =>
          /\ StandaloneTaken <=> Len(TurnSentence) > chunker.max_chunk_size
          /\ StandaloneTaken =>
                 Emitted = PendingFlushed \o <<Strip(TurnSentence)>>]_vars

----------------------------------------------------------------------------
(* C26: within every answer_question call, Retriever.search is invoked at
   most once and the generation collaborator at most once; generation is
   invoked only after search has returned at least one document and
   receives exactly those documents; and success=True is returned only if
   both were invoked and generation returned a non-empty answer. *)
C26_RetrieveThenGenerate ==
    AnswerReturned =>
        /\ Cardinality(CallsOf("search")) <= 1
        /\ Cardinality(CallsOf("generate_answer")) <= 1
        /\ \A g \in CallsOf("generate_answer") :
               \E r \in CallsOf("search") :
                   /\ r < g
                   /\ ~calls[r].outcome.raised
                   /\ Len(calls[r].outcome.value) >= 1
                   /\ calls[g].context_documents = calls[r].outcome.value
        /\ TheResponse.success = TRUE =>
               /\ CallsOf("search") # {}
               /\ \E g \in CallsOf("generate_answer") :
                      /\ ~calls[g].outcome.raised
                      /\ calls[g].outcome.value # <<>>

\* a successful call that detected the language, retrieved two documents
\* and gave them to the generation collaborator
C26_Witness ==
    /\ AnsweredWithSuccess
    /\ request.language = None
    /\ \E r \in CallsOf("search"), g \in CallsOf("generate_answer") :
           /\ r < g
           /\ Len(calls[r].outcome.value) = 2
           /\ calls[g].context_documents = calls[r].outcome.value

----------------------------------------------------------------------------
(* C27: language detection runs only when the caller passed no language; it
   returns 'id' exactly when the number of Indonesian marker words found in
   the question is >= the number of English marker words found, so every
   tie, including a question containing no marker of either list, resolves
   to 'id', and 'en' otherwise. *)

\* the marker occurs somewhere in the text, which is in lower case
FoundIn(marker, lowered) ==
    \E p \in 1..(Len(lowered) - Len(marker) + 1) :
        \A k \in 1..Len(marker) : lowered[p + k - 1] = marker[k]

\* how many markers of the list are found in the text
MarkersFound(markers, text) ==
    LET lowered == [p \in 1..Len(text) |-> LowerChar(text[p])]
    IN  Cardinality({m \in 1..Len(markers) : FoundIn(markers[m], lowered)})

IndonesianMarkers ==
    << <<"a","p","a">>, <<"y","a","n","g">>, <<"a","d","a","l","a","h">>, <<"i","n","i">>,
       <<"i","t","u">>, <<"d","e","n","g","a","n">>, <<"d","a","r","i">>, <<"k","e">>,
       <<"d","i">>, <<"u","n","t","u","k">> >>

EnglishMarkers ==
    << <<"w","h","a","t">>, <<"i","s">>, <<"t","h","e">>, <<"t","h","i","s">>,
       <<"t","h","a","t">>, <<"w","i","t","h">>, <<"f","r","o","m">>, <<"t","o">>,
       <<"i","n">>, <<"f","o","r">> >>

\* the texts detection can be given, each with its two counts
DetectionInputs == {Strip(question) : question \in Questions}
MarkerCounts ==
    [text \in DetectionInputs |->
        [id |-> MarkersFound(IndonesianMarkers, text),
         en |-> MarkersFound(EnglishMarkers, text)]]

C27_DetectionTieIsIndonesian ==
    AnswerReturned =>
        /\ CallsOf("_detect_language") # {} => request.language = None
        /\ \A d \in CallsOf("_detect_language") :
               ~calls[d].outcome.raised =>
                   calls[d].outcome.value =
                       IF MarkerCounts[calls[d].text].id >= MarkerCounts[calls[d].text].en
                       THEN "id" ELSE "en"

\* detection ran on a question with one marker of each list and gave 'id'
C27_Witness ==
    /\ AnswerReturned
    /\ request.language = None
    /\ \E d \in CallsOf("_detect_language") :
           /\ MarkerCounts[calls[d].text].id = 1
           /\ MarkerCounts[calls[d].text].en = 1
           /\ ~calls[d].outcome.raised
           /\ calls[d].outcome.value = "id"
    /\ TheResponse.language = "id"

----------------------------------------------------------------------------
(* C28: for every raw generation output and language, the post-processed
   answer, when non-empty, does not begin with any of that language's known
   boilerplate prefixes ('Jawaban:', 'Jawab:', 'Berdasarkan konteks,' for
   id; 'Answer:', 'Based on the context,' for en), does not begin with a
   lower-case letter, and ends with one of '.', '!' or '?'. *)
BoilerplateOf(language) ==
    IF language = "id"
    THEN { <<"J","a","w","a","b","a","n",":">>,
           <<"J","a","w","a","b",":">>,
           <<"B","e","r","d","a","s","a","r","k","a","n"," ","k","o","n","t","e","k","s",",">> }
    ELSE { <<"A","n","s","w","e","r",":">>,
           <<"B","a","s","e","d"," ","o","n"," ","t","h","e"," ","c","o","n","t","e","x","t",",">> }

BeginsWith(text, prefix) ==
    Len(text) >= Len(prefix) /\ SubSeq(text, 1, Len(prefix)) = prefix

C28_AnswerIsClean ==
    \A g \in CallsOf("generate_answer") :
        (~calls[g].outcome.raised /\ calls[g].outcome.value # <<>>) =>
            LET answer == calls[g].outcome.value
            IN  /\ \A prefix \in BoilerplateOf(calls[g].language) :
                       ~BeginsWith(answer, prefix)
                /\ answer[1] \notin {LowerLetters[k] : k \in 1..Len(LowerLetters)}
                /\ answer[Len(answer)] \in {".", "!", "?"}

----------------------------------------------------------------------------
(* C29: every Retriever.search call embeds the query through the embedding
   collaborator (the same model that load_knowledge_base uses to embed the
   stored chunks) before the nearest-neighbour query is issued, and the
   database is queried with that vector under exactly the supplied
   language/category equality filters. *)
SuppliedFilter(value) == IF value = None \/ value = "" THEN None ELSE value

C29_QueryEmbeddedByModel ==
    SearchReturned =>
        \A i \in CallsOf("search") :
            /\ QueryEmbeddedBy(calls[i].query) = EMBEDDING_MODEL
            /\ calls[i].query.where.language = SuppliedFilter(request.language_filter)
            /\ calls[i].query.where.category = SuppliedFilter(request.category_filter)

\* the part of the claim about the filters, on its own
FiltersAsSupplied ==
    SearchReturned =>
        \A i \in CallsOf("search") :
            /\ calls[i].query.where.language = SuppliedFilter(request.language_filter)
            /\ calls[i].query.where.category = SuppliedFilter(request.category_filter)

----------------------------------------------------------------------------
(* C30: a store left partially filled by a load that failed between add
   batches is treated by every later load_knowledge_base(force_reload=False)
   as already loaded: those calls add nothing, so the collection stays a
   strict subset of the source records until a load with force_reload=True
   completes. *)
LeftPartial == loader.partial

C30_PartialStoreStays ==
    LeftPartial =>
        /\ collection # {}
        /\ collection \subseteq 1..loader.source.n
        /\ collection # 1..loader.source.n
        /\ (loader.pc # "idle" /\ ~loader.force_reload /\ loader.before # {}) =>
               /\ loader.pc = "returned"
               /\ loader.ops = <<>>
               /\ loader.added = <<>>
               /\ collection = loader.before

\* a load of 201 records raised after its first batch, and a later load
\* without force_reload has returned with only that batch in the collection
C30_Witness ==
    /\ LeftPartial
    /\ loader.pc = "returned"
    /\ ~loader.force_reload
    /\ loader.source.n = 2 * BatchSize + 1
    /\ loader.before = 1..BatchSize
    /\ collection = 1..BatchSize

====
